---- MODULE Spec2Model ----
(***************************************************************************)
(* Harbor bridge: the installed-server manager, the secret store and the   *)
(* package runner (process supervisor), run by one asyncio event loop.     *)
(*                                                                         *)
(* The event loop is a FIFO queue of runnable tasks (ready).  A task runs  *)
(* from one await to the next as one step.  The tasks are the main loop    *)
(* (read a message, dispatch it, write the response), one exit monitor per *)
(* spawned process and the detached stop tasks scheduled by uninstall.     *)
(* The environment contributes the arrival of a message, the end of        *)
(* runtime detection, the end of a spawn, the exit of an OS process and    *)
(* the expiry of a stop timeout.                                           *)
(*                                                                         *)
(* terminate() and kill() on a process handle are taken not to raise.      *)
(***************************************************************************)
EXTENDS Integers, Sequences, FiniteSets, TLC

\* ---------------------------------------------------------------- bounds
MaxRecords == 2
MaxDetached == 1

\* ------------------------------------------------------------- vocabulary
Ids == {"a"}

None == 0 - 1000

NoRec == 0

\* What time.time() returns: any set timestamp.
Now == 1

\* An empty dict.
EmptyMap == [j \in {} |-> j]

STARTING == "starting"
RUNNING == "running"
STOPPING == "stopping"
STOPPED == "stopped"
CRASHED == "crashed"
ERROR == "error"

VARIABLES servers, secrets, cache, host, processes, recs, os, mon, det,
          main, ready, resp

\* The byte streams of the native-messaging transport and the bridge loop over
\* them: what the peer sent, where the stream ends, how much was consumed,
\* where the last length prefix was decoded, the position of run_bridge, the
\* message and response in hand, the frames written and the messages read.
VARIABLES sent, eof, pos, hdrAt, loop, msg, reply, out, nread

\* One call of the codec functions: argument, encoded frame, decoded length,
\* decoded payload.
VARIABLES cArg, cEnc, cLen, cDec

\* The connection store and its handlers: the connections document on disk,
\* the ServerStore of the running process, the base URLs the MCP client holds
\* as connected, the ids uuid4 has produced, the handler suspended at an await
\* and the response of the last handler that returned.
VARIABLES disk, store, connected, issued, pend, sresp

\* The exit status of the bridge process, None while it runs.
VARIABLES exitCode

\* The documents of the installer on disk: installed_servers.json and
\* credentials.json.
VARIABLES files

transport == <<sent, eof, pos, hdrAt, loop, msg, reply, out, nread,
               cArg, cEnc, cLen, cDec>>

storeVars == <<disk, store, connected, issued, pend, sresp>>

\* What the manager, the secret store and the runner never touch.
unsaved == <<transport, storeVars, exitCode>>

\* The same and the installer's documents, for the steps that save nothing.
outside == <<unsaved, files>>

vars == <<servers, secrets, cache, host, processes, recs, os, mon, det,
          main, ready, resp, sent, eof, pos, hdrAt, loop, msg, reply, out, nread,
          cArg, cEnc, cLen, cDec, disk, store, connected, issued, pend, sresp,
          exitCode, files>>

\* ------------------------------------------------------------ environment
\* Executables found on the host: what shutil.which and the version probes see.
Hosts ==
  { [node |-> TRUE, npx |-> TRUE, python |-> TRUE, uvx |-> FALSE, pipx |-> FALSE,
     docker |-> FALSE, dockerd |-> FALSE],
    [node |-> FALSE, npx |-> FALSE, python |-> TRUE, uvx |-> TRUE, pipx |-> FALSE,
     docker |-> TRUE, dockerd |-> FALSE] }

\* Catalog entries the peer can send with install_server.
EnvKey == [name |-> "API_KEY", isSecret |-> TRUE]
EnvRegion == [name |-> "REGION", isSecret |-> FALSE]

CatalogEntries ==
  { [id |-> "a", name |-> "alpha",
     packages |-> << [registryType |-> "npm", identifier |-> "pkg-alpha",
                      environmentVariables |-> <<EnvKey, EnvRegion>>] >>] }

\* Secret maps the peer can send with set_server_secrets.
SecretMaps ==
  { EmptyMap, ("API_KEY" :> "k1") }

\* ------------------------------------------------------------------ tasks
MainTask == [kind |-> "main", n |-> 0]
MonTask(pid) == [kind |-> "mon", n |-> pid]
DetTask(k) == [kind |-> "det", n |-> k]

InReady(t) == \E i \in 1..Len(ready) : ready[i] = t

\* Variant: the read of the next message blocks the event loop.
IsHead_blocked(t) ==
  ready # <<>> /\ Head(ready) = t /\ ~(main.pc = "read" /\ ~InReady(MainTask))

IsHead(t) == ready # <<>> /\ Head(ready) = t

\* ------------------------------------------------------- runtime detector
DetectNode(h) ==
  [available |-> h.node,
   runner_cmd |-> IF h.npx THEN "npx" ELSE IF h.node THEN "node" ELSE "none"]

DetectPython(h) ==
  [available |-> h.python,
   runner_cmd |-> IF h.uvx THEN "uvx"
                  ELSE IF h.pipx THEN "pipx run"
                  ELSE IF h.python THEN "python -m" ELSE "none"]

DetectDocker(h) ==
  [available |-> h.docker /\ h.dockerd,
   runner_cmd |-> IF h.docker THEN "docker" ELSE "none"]

DetectAll(h) ==
  [size |-> 3, node |-> DetectNode(h), python |-> DetectPython(h),
   docker |-> DetectDocker(h)]

NoRuntime == [available |-> FALSE, runner_cmd |-> "none"]

EmptyCache == [size |-> 0, node |-> NoRuntime, python |-> NoRuntime, docker |-> NoRuntime]

\* Variant: npm packages are run with npx whatever was detected.
BuildCommand_guess(c, package_type) ==
  IF package_type = "npm" THEN "npx"
  ELSE IF package_type = "pypi" THEN "python3"
  ELSE "docker"

\* _build_command once the cache is filled: the first word of the command,
\* or "none" when no command can be built.
BuildCommand(c, package_type) ==
  IF package_type = "npm"
  THEN IF c.node.available THEN "npx" ELSE "none"
  ELSE IF package_type = "pypi"
  THEN IF ~c.python.available THEN "none"
       ELSE IF c.python.runner_cmd = "uvx" THEN "uvx" ELSE "python3"
  ELSE IF package_type = "oci"
  THEN IF c.docker.available THEN "docker" ELSE "none"
  ELSE "none"

\* ----------------------------------------------------------- secret store
Stored(sec, id) == IF id \in DOMAIN sec THEN sec[id] ELSE EmptyMap

RECURSIVE MissingFrom(_, _, _)
MissingFrom(stored, required, i) ==
  IF i > Len(required) THEN <<>>
  ELSE LET env_var == required[i]
           rest == MissingFrom(stored, required, i + 1)
       IN IF env_var.isSecret /\ env_var.name # "" /\ env_var.name \notin DOMAIN stored
          THEN <<env_var>> \o rest
          ELSE rest

\* Variant: every required variable counts, flagged secret or not.
get_missing_secrets_anyvar(sec, id, required) ==
  SelectSeq(required, LAMBDA e : e.name \notin DOMAIN Stored(sec, id))

get_missing_secrets(sec, id, required) == MissingFrom(Stored(sec, id), required, 1)

Names(envs) == [i \in 1..Len(envs) |-> envs[i].name]

\* Variant: delete leaves the stored secrets in place.
SecretsDelete_kept(sec, id) == sec

SecretsDelete(sec, id) == [j \in DOMAIN sec \ {id} |-> sec[j]]

SecretsSetAll(sec, id, m) == [j \in DOMAIN sec \cup {id} |-> IF j = id THEN m ELSE sec[j]]

\* ---------------------------------------------------------------- records
\* Variant: the record of a start shows the end of the attempt before it.
NewProc_stale(id, package_type, package_id) ==
  [server_id |-> id, package_type |-> package_type, package_id |-> package_id,
   state |-> STARTING, pid |-> None, started_at |-> None, stopped_at |-> Now,
   exit_code |-> 1, error_message |-> "exited", process |-> None,
   log_buffer |-> <<>>]

NewProc(id, package_type, package_id) ==
  [server_id |-> id, package_type |-> package_type, package_id |-> package_id,
   state |-> STARTING, pid |-> None, started_at |-> None, stopped_at |-> None,
   exit_code |-> None, error_message |-> "", process |-> None,
   log_buffer |-> <<>>]

\* The buffer lengths of add_log and the number of lines to_dict exposes.
LogLimit == 1000
LogKeep == 500
RecentCount == 50

\* Log lines are numbered in arrival order; line 0 is the echoed command.
CmdLine == 0

\* Variant: the trimmed buffer keeps the oldest lines.
add_log_oldest(buf, line) ==
  LET b == Append(buf, line)
  IN IF Len(b) > LogLimit THEN SubSeq(b, 1, LogKeep) ELSE b

\* add_log: append, then buf[-500:] once the buffer is longer than 1000.
add_log(buf, line) ==
  LET b == Append(buf, line)
  IN IF Len(b) > LogLimit THEN SubSeq(b, Len(b) - LogKeep + 1, Len(b)) ELSE b

\* The slice buf[-50:] of to_dict.
RecentLogs(buf) ==
  IF Len(buf) > RecentCount THEN SubSeq(buf, Len(buf) - RecentCount + 1, Len(buf)) ELSE buf

GetProcess(id) == IF id \in DOMAIN processes THEN processes[id] ELSE NoRec

\* time.time() as install() reads it, in microseconds: 1.0005 s.
InstallClock == 1000500

\* An installed-server config built by install().
InstalledServer(entry, package_index) ==
  IF entry.packages # <<>> /\ package_index < Len(entry.packages)
  THEN LET pkg == entry.packages[package_index + 1]
       IN [id |-> entry.id, name |-> entry.name,
           package_type |-> pkg.registryType, package_id |-> pkg.identifier,
           args |-> <<>>, required_env_vars |-> pkg.environmentVariables,
           installed_at |-> InstallClock]
  ELSE [id |-> entry.id, name |-> entry.name,
        package_type |-> "npm", package_id |-> entry.name,
        args |-> <<>>, required_env_vars |-> <<>>,
        installed_at |-> InstallClock]

\* ------------------------------------------------------- persisted documents
\* Variant: from_dict forgets the args.
ConfigFromDict_noargs(data) ==
  [id |-> data.id, name |-> data.name, package_type |-> data.packageType,
   package_id |-> data.packageId, args |-> <<>>,
   required_env_vars |-> data.requiredEnvVars,
   installed_at |-> data.installedAt * 1000]

\* InstalledServer.from_dict: installedAt / 1000.
ConfigFromDict(data) ==
  [id |-> data.id, name |-> data.name, package_type |-> data.packageType,
   package_id |-> data.packageId, args |-> data.args,
   required_env_vars |-> data.requiredEnvVars,
   installed_at |-> data.installedAt * 1000]

\* InstalledServer.to_dict: installedAt is int(installed_at * 1000).
ConfigToDict(s) ==
  [id |-> s.id, name |-> s.name, packageType |-> s.package_type,
   packageId |-> s.package_id, args |-> s.args,
   requiredEnvVars |-> s.required_env_vars,
   installedAt |-> s.installed_at \div 1000]

\* A document that was never written.
NoDocument == [state |-> "absent", data |-> EmptyMap]

\* InstalledServerManager._save and _load.
SaveInstalled(srv) ==
  [state |-> "complete", data |-> [id \in DOMAIN srv |-> ConfigToDict(srv[id])]]

LoadInstalled(f) ==
  IF f.state = "complete"
  THEN [id \in DOMAIN f.data |-> ConfigFromDict(f.data[id])]
  ELSE EmptyMap

\* SecretStore._save and _load.
SaveSecrets(sec) == [state |-> "complete", data |-> sec]

LoadSecrets(f) == IF f.state = "complete" THEN f.data ELSE EmptyMap

\* ----------------------------------------------------------------- frames
IdleMain ==
  [pc |-> "read", sid |-> "", rec |-> NoRec, pid |-> None, timedOut |-> FALSE,
   env |-> EmptyMap, cmd |-> "none", spawned |-> FALSE, args |-> <<>>,
   restart |-> FALSE]

\* to_dict() of a record, or of no record.
NoProc == [NewProc("", "", "") EXCEPT !.state = "none"]

ToDict(rs, r) ==
  IF r = NoRec THEN NoProc ELSE [rs[r] EXCEPT !.log_buffer = RecentLogs(@)]

NoResp ==
  [type |-> "none", sid |-> "", success |-> FALSE, code |-> "", rec |-> NoRec,
   process |-> NoProc, missing |-> <<>>, installed |-> FALSE, canStart |-> FALSE]

Result(type, sid, success, rec, proc) ==
  [type |-> type, sid |-> sid, success |-> success, code |-> "", rec |-> rec,
   process |-> proc, missing |-> <<>>, installed |-> FALSE, canStart |-> FALSE]

ErrorResp(sid, code, missing) ==
  [type |-> "error", sid |-> sid, success |-> FALSE, code |-> code, rec |-> NoRec,
   process |-> NoProc, missing |-> missing, installed |-> FALSE, canStart |-> FALSE]

\* The state after construction, with the configs and secrets loaded from disk.
Boot(loadedServers, loadedSecrets) ==
  /\ files = [installed |-> IF DOMAIN loadedServers = {} THEN NoDocument
                            ELSE SaveInstalled(loadedServers),
              credentials |-> IF DOMAIN loadedSecrets = {} THEN NoDocument
                              ELSE SaveSecrets(loadedSecrets)]
  /\ servers = loadedServers
  /\ secrets = loadedSecrets
  /\ cache = EmptyCache
  /\ host \in Hosts
  /\ processes = EmptyMap
  /\ recs = <<>>
  /\ os = <<>>
  /\ mon = <<>>
  /\ det = <<>>
  /\ main = IdleMain
  /\ ready = <<>>
  /\ resp = NoResp

\* A call that was not made yet.
Pending == [ok |-> FALSE, val |-> None, err |-> "pending"]

\* No message: what msg and reply hold between two requests.
NoMessage == [k |-> "none", b |-> FALSE, i |-> 0, s |-> <<>>, items |-> <<>>]

\* No codec call under way.
CodecIdle ==
  /\ cArg = [fn |-> "none"]
  /\ cEnc = Pending
  /\ cLen = Pending
  /\ cDec = Pending

\* The byte streams untouched.
LoopIdle ==
  /\ sent = <<>>
  /\ eof = 0
  /\ pos = 0
  /\ hdrAt = None
  /\ loop = "read"
  /\ msg = NoMessage
  /\ reply = NoMessage
  /\ out = <<>>
  /\ nread = 0

\* servers.json does not exist.
NoFile == [state |-> "absent", servers |-> EmptyMap]

\* ServerStore(data_dir): nothing in memory, nothing loaded.
NewStore == [servers |-> EmptyMap, loaded |-> FALSE]

\* No handler of the connection store is suspended.
NoCall == [op |-> "none", id |-> ""]

\* No handler of the connection store has returned yet.
NoResponse == [op |-> "none", id |-> "", tool |-> "", code |-> "", client |-> FALSE]

\* A fresh process on a fresh data directory.
StoreIdle ==
  /\ disk = NoFile
  /\ store = NewStore
  /\ connected = {}
  /\ issued = {}
  /\ pend = NoCall
  /\ sresp = NoResponse

\* The transport as the manager-level specifications see it: read_message and
\* write_message are the steps MsgArrive and the handlers' responses.
TransportIdle == LoopIdle /\ CodecIdle

\* Nothing on disk.
Init == Boot(EmptyMap, EmptyMap) /\ TransportIdle /\ StoreIdle /\ exitCode = None

\* ------------------------------------------------------------ environment
\* read_message completes: the main loop becomes runnable.
MsgArrive ==
  /\ main.pc = "read"
  /\ ~InReady(MainTask)
  /\ ready' = Append(ready, MainTask)
  /\ resp' = NoResp
  /\ UNCHANGED <<outside, servers, secrets, cache, host, processes, recs, os, mon, det,
                 main>>

\* ------------------------------------------------- handlers without awaits
MainTurn == IsHead(MainTask) /\ main.pc = "read"

HandleInstall(entry, package_index) ==
  /\ MainTurn
  /\ LET server == InstalledServer(entry, package_index)
     IN /\ servers' = [j \in DOMAIN servers \cup {entry.id} |->
                         IF j = entry.id THEN server ELSE servers[j]]
        /\ resp' = Result("install_server_result", entry.id, TRUE, NoRec, NoProc)
  /\ files' = [files EXCEPT !.installed = SaveInstalled(servers')]
  /\ ready' = Tail(ready)
  /\ UNCHANGED <<unsaved, secrets, cache, host, processes, recs, os, mon, det, main>>

\* Variant: get_status reports canStart whatever is missing.
GetStatus_optimistic(srv, sec, id) ==
  IF id \notin DOMAIN srv
  THEN [installed |-> FALSE, missingSecrets |-> <<>>, canStart |-> FALSE]
  ELSE [installed |-> TRUE,
        missingSecrets |-> Names(get_missing_secrets(sec, id, srv[id].required_env_vars)),
        canStart |-> TRUE]

\* get_status: for an id that is not installed only installed = False is set.
GetStatus(srv, sec, id) ==
  IF id \notin DOMAIN srv
  THEN [installed |-> FALSE, missingSecrets |-> <<>>, canStart |-> FALSE]
  ELSE LET missing_secrets == get_missing_secrets(sec, id, srv[id].required_env_vars)
       IN [installed |-> TRUE,
           missingSecrets |-> Names(missing_secrets),
           canStart |-> Len(missing_secrets) = 0]

StatusResp(type, id, status) ==
  [Result(type, id, TRUE, GetProcess(id), ToDict(recs, GetProcess(id)))
     EXCEPT !.missing = status.missingSecrets,
            !.installed = status.installed,
            !.canStart = status.canStart]

HandleSetSecrets(id, m) ==
  /\ MainTurn
  /\ secrets' = SecretsSetAll(secrets, id, m)
  /\ files' = [files EXCEPT !.credentials = SaveSecrets(secrets')]
  /\ resp' = StatusResp("set_server_secrets_result", id, GetStatus(servers, secrets', id))
  /\ ready' = Tail(ready)
  /\ UNCHANGED <<unsaved, servers, cache, host, processes, recs, os, mon, det, main>>

HandleGetStatus(id) ==
  /\ MainTurn
  /\ resp' = StatusResp("get_server_status_result", id, GetStatus(servers, secrets, id))
  /\ ready' = Tail(ready)
  /\ UNCHANGED <<outside, servers, secrets, cache, host, processes, recs, os, mon, det, main>>

\* --------------------------------------------------------------- OS level
Terminate(o, pid) ==
  IF o[pid].status = "alive" /\ o[pid].sig = "none"
  THEN [o EXCEPT ![pid].sig = "term"] ELSE o

\* Variant: the timeout branch does not kill.
Kill_forgotten(o, pid) == o

Kill(o, pid) ==
  IF o[pid].status = "alive" THEN [o EXCEPT ![pid].sig = "kill"] ELSE o

ExitCodes(sig) ==
  {0, 1} \cup (IF sig = "term" THEN {0 - 15} ELSE {})
         \cup (IF sig = "kill" THEN {0 - 9} ELSE {})

\* ------------------------------------------------------------ stop_server
\* Variant: stop_server records the state alone.
StopFinalize_bare(rs, r, pid) == [rs EXCEPT ![r].state = STOPPED]

StopFinalize(rs, r, pid) ==
  [rs EXCEPT ![r].state = STOPPED, ![r].stopped_at = Now,
             ![r].exit_code = os[pid].rc]

StopReturn(result, r, pid, rs, o) ==
  [ret |-> TRUE, result |-> result, rec |-> r, pid |-> pid, recs |-> rs,
   os |-> o, pc |-> "done", requeue |-> FALSE]

StopSuspend(pc, r, pid, rs, o, requeue) ==
  [ret |-> FALSE, result |-> FALSE, rec |-> r, pid |-> pid, recs |-> rs,
   os |-> o, pc |-> pc, requeue |-> requeue]

\* stop_server from its call to its first await or its return.  When the
\* process has already exited, wait_for(process.wait()) either completes
\* without suspending or yields to the loop once.
StopBegin(id) ==
  LET r == GetProcess(id) IN
  IF r = NoRec \/ recs[r].process = None
  THEN { StopReturn(FALSE, r, None, recs, os) }
  ELSE IF recs[r].state \notin {RUNNING, STARTING}
  THEN { StopReturn(TRUE, r, recs[r].process, recs, os) }
  ELSE LET pid == recs[r].process
           rs == [recs EXCEPT ![r].state = STOPPING]
           o == Terminate(os, pid)
       IN IF os[pid].status = "exited"
          THEN { StopReturn(TRUE, r, pid, StopFinalize(rs, r, pid), o),
                 StopSuspend("stopwait", r, pid, rs, o, TRUE) }
          ELSE { StopSuspend("stopwait", r, pid, rs, o, FALSE) }

\* Variant: a resumed stop_server looks the record of the id up again.
StopResume_lookup(f) ==
  IF f.pc = "stopwait" /\ f.timedOut
  THEN LET o == Kill(os, f.pid)
       IN IF os[f.pid].status = "exited"
          THEN StopReturn(TRUE, f.rec, f.pid, StopFinalize(recs, GetProcess(f.sid), f.pid), o)
          ELSE StopSuspend("killwait", f.rec, f.pid, recs, o, FALSE)
  ELSE StopReturn(TRUE, f.rec, f.pid, StopFinalize(recs, GetProcess(f.sid), f.pid), os)

\* stop_server resumed after wait_for: on timeout kill and wait for the exit.
StopResume(f) ==
  IF f.pc = "stopwait" /\ f.timedOut
  THEN LET o == Kill(os, f.pid)
       IN IF os[f.pid].status = "exited"
          THEN StopReturn(TRUE, f.rec, f.pid, StopFinalize(recs, f.rec, f.pid), o)
          ELSE StopSuspend("killwait", f.rec, f.pid, recs, o, FALSE)
  ELSE StopReturn(TRUE, f.rec, f.pid, StopFinalize(recs, f.rec, f.pid), os)

Requeued(t, requeue) == IF requeue THEN Append(Tail(ready), t) ELSE Tail(ready)

\* stop_installed: the handler calls manager.stop, which calls stop_server.
ApplyMainStop(id, x) ==
  /\ recs' = x.recs
  /\ os' = x.os
  /\ IF x.ret
     THEN /\ main' = IdleMain
          /\ resp' = Result("stop_installed_result", id, x.result, x.rec, NoProc)
     ELSE /\ main' = [IdleMain EXCEPT !.pc = x.pc, !.sid = id, !.rec = x.rec,
                                      !.pid = x.pid]
          /\ UNCHANGED resp
  /\ ready' = Requeued(MainTask, x.requeue)
  /\ UNCHANGED <<outside, servers, secrets, cache, host, processes, mon, det>>

HandleStop(id) ==
  /\ MainTurn
  /\ \E x \in StopBegin(id) : ApplyMainStop(id, x)

MainStopResume ==
  /\ IsHead(MainTask)
  /\ main.pc \in {"stopwait", "killwait"}
  /\ ~main.restart
  /\ ApplyMainStop(main.sid, StopResume(main))

\* The stop task that uninstall leaves behind.
ApplyDetStop(k, x) ==
  /\ recs' = x.recs
  /\ os' = x.os
  /\ det' = [det EXCEPT ![k].pc = x.pc, ![k].rec = x.rec, ![k].pid = x.pid,
                         ![k].result = x.result]
  /\ ready' = Requeued(DetTask(k), x.requeue)
  /\ UNCHANGED <<outside, servers, secrets, cache, host, processes, mon, main, resp>>

DetachedStopBegin(k) ==
  /\ IsHead(DetTask(k))
  /\ det[k].pc = "scheduled"
  /\ \E x \in StopBegin(det[k].sid) : ApplyDetStop(k, x)

DetachedStopResume(k) ==
  /\ IsHead(DetTask(k))
  /\ det[k].pc \in {"stopwait", "killwait"}
  /\ ApplyDetStop(k, StopResume(det[k]))

\* wait_for's timer expires while the process is still alive.
TimeoutMain ==
  /\ main.pc = "stopwait"
  /\ ~main.timedOut
  /\ ~InReady(MainTask)
  /\ main' = [main EXCEPT !.timedOut = TRUE]
  /\ ready' = Append(ready, MainTask)
  /\ UNCHANGED <<outside, servers, secrets, cache, host, processes, recs, os, mon, det, resp>>

TimeoutDet(k) ==
  /\ k \in 1..Len(det)
  /\ det[k].pc = "stopwait"
  /\ ~det[k].timedOut
  /\ ~InReady(DetTask(k))
  /\ det' = [det EXCEPT ![k].timedOut = TRUE]
  /\ ready' = Append(ready, DetTask(k))
  /\ UNCHANGED <<outside, servers, secrets, cache, host, processes, recs, os, mon, main, resp>>

\* ----------------------------------------------------------- start_server
StartRefused(id) ==
  IF id \notin DOMAIN servers THEN TRUE
  ELSE get_missing_secrets(secrets, id, servers[id].required_env_vars) # <<>>

\* Variant: the running check of start_server never succeeds.
AlreadyRunning_never(id) == FALSE

AlreadyRunning(id) ==
  IF GetProcess(id) = NoRec THEN FALSE ELSE recs[GetProcess(id)].state = RUNNING

\* manager.start raises ValueError: not installed, or required secrets missing.
HandleStartRefused(id) ==
  /\ MainTurn
  /\ StartRefused(id)
  /\ resp' = ErrorResp(id, "start_error",
                IF id \in DOMAIN servers
                THEN Names(get_missing_secrets(secrets, id, servers[id].required_env_vars))
                ELSE <<>>)
  /\ ready' = Tail(ready)
  /\ UNCHANGED <<outside, servers, secrets, cache, host, processes, recs, os, mon, det,
                 main>>

\* start_server finds the record running and returns it.
HandleStartExisting(id) ==
  /\ MainTurn
  /\ ~StartRefused(id)
  /\ AlreadyRunning(id)
  /\ resp' = Result("start_installed_result", id, TRUE, GetProcess(id),
                    ToDict(recs, GetProcess(id)))
  /\ ready' = Tail(ready)
  /\ UNCHANGED <<outside, servers, secrets, cache, host, processes, recs, os, mon, det,
                 main>>

\* start_server echoes the command it built and goes on to spawn it with
\* args appended; restart tells who called start_server.
Launch(rs, r, id, env, args, restart, cmd) ==
  /\ recs' = [rs EXCEPT ![r].log_buffer = add_log(@, CmdLine)]
  /\ main' = [IdleMain EXCEPT !.pc = "spawn", !.sid = id, !.rec = r,
                              !.args = args, !.restart = restart,
                              !.env = env, !.cmd = cmd]
  /\ resp' = resp

\* The outcome of _build_command on the new record r: error, or launch.
Built(rs, r, id, env, args, restart) ==
  LET cmd == BuildCommand(cache, rs[r].package_type) IN
  IF cmd = "none"
  THEN /\ recs' = [rs EXCEPT ![r].state = ERROR,
                             ![r].error_message = "runtime not available"]
       /\ main' = IdleMain
       /\ resp' = Result("start_installed_result", id, TRUE, r, ToDict(recs', r))
  ELSE Launch(rs, r, id, env, args, restart, cmd)

\* manager.start passes the args of the installed config.
AfterBuild(rs, r, id, env) == Built(rs, r, id, env, servers[id].args, FALSE)

\* start_server creates a record and builds the command; the first call
\* awaits the runtime detection.
HandleStartNew(id) ==
  /\ MainTurn
  /\ ~StartRefused(id)
  /\ ~AlreadyRunning(id)
  /\ Len(recs) < MaxRecords
  /\ LET r == Len(recs) + 1
         rs == Append(recs, NewProc(id, servers[id].package_type, servers[id].package_id))
         env == Stored(secrets, id)
     IN /\ processes' = [j \in DOMAIN processes \cup {id} |->
                           IF j = id THEN r ELSE processes[j]]
        /\ IF cache.size = 3
           THEN AfterBuild(rs, r, id, env)
           ELSE /\ recs' = rs
                /\ main' = [IdleMain EXCEPT !.pc = "detect", !.sid = id, !.rec = r,
                                            !.env = env]
                /\ resp' = resp
  /\ ready' = Tail(ready)
  /\ UNCHANGED <<outside, servers, secrets, cache, host, os, mon, det>>

\* detect_all finishes and fills the cache.
DetectDone ==
  /\ main.pc = "detect"
  /\ ~InReady(MainTask)
  /\ cache' = DetectAll(host)
  /\ ready' = Append(ready, MainTask)
  /\ UNCHANGED <<outside, servers, secrets, host, processes, recs, os, mon, det, main, resp>>

MainAfterDetect ==
  /\ IsHead(MainTask)
  /\ main.pc = "detect"
  /\ AfterBuild(recs, main.rec, main.sid, main.env)
  /\ ready' = Tail(ready)
  /\ UNCHANGED <<outside, servers, secrets, cache, host, processes, os, mon, det>>

\* create_subprocess_exec finishes: a new OS process, or an exception.
SpawnDone(ok) ==
  /\ main.pc = "spawn"
  /\ ~InReady(MainTask)
  /\ IF ok
     THEN /\ os' = Append(os, [status |-> "alive", rc |-> None, sig |-> "none",
                               rec |-> main.rec, env |-> main.env, cmd |-> main.cmd,
                               args |-> main.args])
          /\ mon' = Append(mon, "none")
          /\ main' = [main EXCEPT !.spawned = TRUE, !.pid = Len(os) + 1]
     ELSE UNCHANGED <<os, mon, main>>
  /\ ready' = Append(ready, MainTask)
  /\ UNCHANGED <<outside, servers, secrets, cache, host, processes, recs, det,
                 resp>>

MainAfterSpawn ==
  /\ IsHead(MainTask)
  /\ main.pc = "spawn"
  /\ IF main.spawned
     THEN /\ recs' = [recs EXCEPT ![main.rec].process = main.pid,
                                  ![main.rec].pid = main.pid,
                                  ![main.rec].started_at = Now,
                                  ![main.rec].state = RUNNING]
          /\ mon' = [mon EXCEPT ![main.pid] = "scheduled"]
          /\ ready' = Append(Tail(ready), MonTask(main.pid))
     ELSE /\ recs' = [recs EXCEPT ![main.rec].state = ERROR,
                                  ![main.rec].error_message = "spawn failed"]
          /\ ready' = Tail(ready)
          /\ UNCHANGED mon
  /\ resp' = Result("start_installed_result", main.sid, TRUE, main.rec,
                    ToDict(recs', main.rec))
  /\ main' = IdleMain
  /\ UNCHANGED <<outside, servers, secrets, cache, host, processes, os, det>>

\* --------------------------------------------------- restart and configure
\* manager.restart and manager.configure have no message handler; they are
\* modelled as calls made by the main task in place of one.
ArgLists == { <<>>, <<"--verbose">> }

Configure(id, args) ==
  /\ MainTurn
  /\ IF id \in DOMAIN servers
     THEN /\ servers' = [servers EXCEPT ![id].args = args]
          /\ files' = [files EXCEPT !.installed = SaveInstalled(servers')]
          /\ resp' = Result("configure_result", id, TRUE, NoRec, NoProc)
     ELSE /\ UNCHANGED <<servers, files>>
          /\ resp' = ErrorResp(id, "configure_error", <<>>)
  /\ ready' = Tail(ready)
  /\ UNCHANGED <<unsaved, secrets, cache, host, processes, recs, os, mon, det, main>>

\* The args restart_server passes to start_server: none.
RestartArgs(id) == <<>>

\* restart_server once stop_server has returned: start_server with the
\* package identity of the record it read before the stop.  The runtimes
\* were detected by the start that made that record, and the record is not
\* running after a stop, so a new record is made and the command built.
RestartStart(id, old, rs, o) ==
  /\ Len(rs) < MaxRecords
  /\ os' = o
  /\ LET r == Len(rs) + 1
         rs2 == Append(rs, NewProc(id, rs[old].package_type, rs[old].package_id))
     IN /\ processes' = [j \in DOMAIN processes \cup {id} |->
                           IF j = id THEN r ELSE processes[j]]
        /\ Built(rs2, r, id, Stored(secrets, id), RestartArgs(id), TRUE)
  /\ ready' = Tail(ready)

\* The same after a stop that had to wait: the record old had a process, so
\* the command of its package type was built before and is built again.
RestartRelaunch(id, old, rs, o) ==
  /\ Len(rs) < MaxRecords
  /\ os' = o
  /\ LET r == Len(rs) + 1
         rs2 == Append(rs, NewProc(id, rs[old].package_type, rs[old].package_id))
     IN /\ processes' = [j \in DOMAIN processes \cup {id} |->
                           IF j = id THEN r ELSE processes[j]]
        /\ Launch(rs2, r, id, Stored(secrets, id), RestartArgs(id), TRUE,
                  BuildCommand(cache, rs[old].package_type))
  /\ ready' = Tail(ready)

RestartSuspend(id, x) ==
  /\ recs' = x.recs
  /\ os' = x.os
  /\ main' = [IdleMain EXCEPT !.pc = x.pc, !.sid = id, !.rec = x.rec, !.pid = x.pid,
                              !.restart = TRUE]
  /\ ready' = Requeued(MainTask, x.requeue)
  /\ UNCHANGED <<processes, resp>>

HandleRestart(id) ==
  /\ MainTurn
  /\ IF id \notin DOMAIN servers \/ GetProcess(id) = NoRec
     THEN /\ resp' = ErrorResp(id, "restart_error", <<>>)
          /\ ready' = Tail(ready)
          /\ UNCHANGED <<processes, recs, os, main>>
     ELSE \E x \in StopBegin(id) :
            IF x.ret
            THEN RestartStart(id, GetProcess(id), x.recs, x.os)
            ELSE RestartSuspend(id, x)
  /\ UNCHANGED <<outside, servers, secrets, cache, host, mon, det>>

MainRestartResume ==
  /\ IsHead(MainTask)
  /\ main.pc \in {"stopwait", "killwait"}
  /\ main.restart
  /\ \E x \in {StopResume(main)} :
       IF x.ret
       THEN RestartRelaunch(main.sid, main.rec, x.recs, x.os)
       ELSE RestartSuspend(main.sid, x)
  /\ UNCHANGED <<outside, servers, secrets, cache, host, mon, det>>

\* ------------------------------------------------------- _monitor_process
\* Variant: the monitor records every exit as a stop.
MonitorFinalize_alwaysStopped(rs, r, pid) ==
  [rs EXCEPT ![r].exit_code = os[pid].rc, ![r].stopped_at = Now, ![r].state = STOPPED]

MonitorFinalize(rs, r, pid) ==
  LET rc == os[pid].rc
      seen == [rs EXCEPT ![r].exit_code = rc, ![r].stopped_at = Now]
  IN IF rs[r].state = STOPPING
     THEN [seen EXCEPT ![r].state = STOPPED]
     ELSE IF rc # 0
     THEN [seen EXCEPT ![r].state = CRASHED, ![r].error_message = "exited"]
     ELSE [seen EXCEPT ![r].state = STOPPED]

MonitorRun(pid) ==
  /\ IsHead(MonTask(pid))
  /\ IF os[pid].status = "alive"
     THEN /\ mon' = [mon EXCEPT ![pid] = "waiting"]
          /\ UNCHANGED recs
     ELSE /\ mon' = [mon EXCEPT ![pid] = "done"]
          /\ recs' = MonitorFinalize(recs, os[pid].rec, pid)
  /\ ready' = Tail(ready)
  /\ UNCHANGED <<outside, servers, secrets, cache, host, processes, os, det, main, resp>>

\* ------------------------------------------------------------ _read_output
\* A pump of process pid reads a line and appends it to the buffer of the
\* record it was created with; cap bounds the number of lines that arrive.
PumpLine(pid, cap) ==
  /\ pid \in 1..Len(os)
  /\ mon[pid] # "none"
  /\ \E r \in {os[pid].rec} :
       \E line \in {recs[r].log_buffer[Len(recs[r].log_buffer)] + 1} :
         /\ line <= cap
         /\ recs' = [recs EXCEPT ![r].log_buffer = add_log(@, line)]
  /\ UNCHANGED <<outside, servers, secrets, cache, host, processes, os, mon, det, main,
                 ready, resp>>

\* ------------------------------------------------------------ process exit
\* The tasks suspended in process.wait() of pid.
Waiters(pid) ==
  (IF mon[pid] = "waiting" THEN {MonTask(pid)} ELSE {})
  \cup (IF main.pc \in {"stopwait", "killwait"} /\ main.pid = pid /\ ~InReady(MainTask)
        THEN {MainTask} ELSE {})
  \cup {DetTask(k) : k \in {j \in 1..Len(det) :
                               /\ det[j].pc \in {"stopwait", "killwait"}
                               /\ det[j].pid = pid
                               /\ ~InReady(DetTask(j))}}

Orders(S) ==
  {q \in [1..Cardinality(S) -> S] : \A i, j \in 1..Cardinality(S) : q[i] = q[j] => i = j}

\* The OS process exits; every task waiting for it becomes runnable.
OsExit(pid, rc) ==
  /\ pid \in 1..Len(os)
  /\ os[pid].status = "alive"
  /\ rc \in ExitCodes(os[pid].sig)
  /\ os' = [os EXCEPT ![pid].status = "exited", ![pid].rc = rc]
  /\ \E q \in Orders(Waiters(pid)) : ready' = ready \o q
  /\ UNCHANGED <<outside, servers, secrets, cache, host, processes, recs, mon, det, main, resp>>

\* -------------------------------------------------------------- uninstall
\* Variant: uninstall never schedules a stop.
NeedsStop_never(id) == FALSE

\* uninstall's "stop if running" test.
NeedsStop(id) ==
  IF GetProcess(id) = NoRec THEN FALSE ELSE recs[GetProcess(id)].state = RUNNING

HandleUninstall(id) ==
  /\ MainTurn
  /\ IF id \notin DOMAIN servers
     THEN /\ resp' = Result("uninstall_server_result", id, FALSE, NoRec, NoProc)
          /\ ready' = Tail(ready)
          /\ UNCHANGED <<servers, secrets, det, files>>
     ELSE /\ IF NeedsStop(id)
             THEN /\ Len(det) < MaxDetached
                  /\ det' = Append(det, [pc |-> "scheduled", sid |-> id, rec |-> NoRec,
                                          pid |-> None, timedOut |-> FALSE,
                                          result |-> FALSE])
                  /\ ready' = Append(Tail(ready), DetTask(Len(det) + 1))
             ELSE /\ det' = det
                  /\ ready' = Tail(ready)
          /\ servers' = [j \in DOMAIN servers \ {id} |-> servers[j]]
          /\ secrets' = SecretsDelete(secrets, id)
          /\ files' = [installed |-> SaveInstalled(servers'),
                       credentials |-> IF id \in DOMAIN secrets
                                       THEN SaveSecrets(secrets')
                                       ELSE files.credentials]
          /\ resp' = Result("uninstall_server_result", id, TRUE, NoRec, NoProc)
  /\ UNCHANGED <<unsaved, cache, host, processes, recs, os, mon, main>>

\* ------------------------------------------------------------------- spec
Next ==
  \/ MsgArrive
  \/ \E e \in CatalogEntries : HandleInstall(e, 0)
  \/ \E id \in Ids, m \in SecretMaps : HandleSetSecrets(id, m)
  \/ \E id \in Ids : HandleGetStatus(id)
  \/ \E id \in Ids : HandleStartRefused(id)
  \/ \E id \in Ids : HandleStartExisting(id)
  \/ \E id \in Ids : HandleStartNew(id)
  \/ DetectDone
  \/ MainAfterDetect
  \/ \E ok \in BOOLEAN : SpawnDone(ok)
  \/ MainAfterSpawn
  \/ \E id \in Ids : HandleStop(id)
  \/ MainStopResume
  \/ TimeoutMain
  \/ \E id \in Ids : HandleUninstall(id)
  \/ \E k \in 1..MaxDetached : DetachedStopBegin(k)
  \/ \E k \in 1..MaxDetached : DetachedStopResume(k)
  \/ \E k \in 1..MaxDetached : TimeoutDet(k)
  \/ \E pid \in 1..MaxRecords : MonitorRun(pid)
  \/ \E pid \in 1..MaxRecords, rc \in {0, 1, 0 - 15, 0 - 9} : OsExit(pid, rc)

Spec == Init /\ [][Next]_vars

\* ------------------------------------------------------- progress (fair)
\* The bridge starts with what it loads from disk: here one installed server
\* with its secret stored.  The peer installs, starts, stops and uninstalls.
LoadedInit ==
  /\ \E e \in CatalogEntries :
       Boot((e.id :> ConfigFromDict(ConfigToDict(InstalledServer(e, 0)))),
            (e.id :> ("API_KEY" :> "k1")))
  /\ TransportIdle
  /\ StoreIdle
  /\ exitCode = None

\* The event loop runs the task at the head of the ready queue.
LoopStep ==
  \/ \E e \in CatalogEntries : HandleInstall(e, 0)
  \/ \E id \in Ids : HandleStartRefused(id)
  \/ \E id \in Ids : HandleStartExisting(id)
  \/ \E id \in Ids : HandleStartNew(id)
  \/ MainAfterDetect
  \/ MainAfterSpawn
  \/ \E id \in Ids : HandleStop(id)
  \/ MainStopResume
  \/ \E id \in Ids : HandleUninstall(id)
  \/ \E k \in 1..MaxDetached : DetachedStopBegin(k)
  \/ \E k \in 1..MaxDetached : DetachedStopResume(k)
  \/ \E pid \in 1..MaxRecords : MonitorRun(pid)

\* What the environment does.
EnvStep ==
  \/ MsgArrive
  \/ DetectDone
  \/ \E ok \in BOOLEAN : SpawnDone(ok)
  \/ TimeoutMain
  \/ \E k \in 1..MaxDetached : TimeoutDet(k)
  \/ \E pid \in 1..MaxRecords, rc \in {0, 1, 0 - 15, 0 - 9} : OsExit(pid, rc)

\* A process that was sent SIGKILL exits.
KilledExit ==
  \E pid \in 1..MaxRecords, rc \in {0, 1, 0 - 15, 0 - 9} :
     /\ pid \in 1..Len(os)
     /\ os[pid].sig = "kill"
     /\ OsExit(pid, rc)

FairNext == LoopStep \/ EnvStep

\* The loop keeps running runnable tasks, the timer of wait_for expires
\* unless the wait ends first, and a killed process exits.
FairSpec ==
  /\ LoadedInit
  /\ [][FairNext]_vars
  /\ WF_vars(LoopStep)
  /\ WF_vars(TimeoutMain)
  /\ \A k \in 1..MaxDetached : WF_vars(TimeoutDet(k))
  /\ WF_vars(KilledExit)

\* ------------------------------------------------------------ output pumps
\* Lines each supervised process prints while the peer installs, sets
\* secrets and starts, and uninstalls until one stop task has been detached.
MaxPumped == 1

PumpNext ==
  \/ MsgArrive
  \/ \E e \in CatalogEntries : HandleInstall(e, 0)
  \/ \E id \in Ids, m \in SecretMaps \ {EmptyMap} : HandleSetSecrets(id, m)
  \/ \E id \in Ids : HandleStartNew(id)
  \/ DetectDone
  \/ MainAfterDetect
  \/ \E ok \in BOOLEAN : SpawnDone(ok)
  \/ MainAfterSpawn
  \/ \E id \in Ids : det = <<>> /\ HandleUninstall(id)
  \/ DetachedStopBegin(1)
  \/ DetachedStopResume(1)
  \/ TimeoutDet(1)
  \/ \E pid \in 1..MaxRecords : MonitorRun(pid)
  \/ \E pid \in 1..MaxRecords, rc \in {0, 1, 0 - 15, 0 - 9} : OsExit(pid, rc)
  \/ \E pid \in 1..MaxRecords : PumpLine(pid, MaxPumped)

PumpSpec == LoadedInit /\ [][PumpNext]_vars

\* ----------------------------------------------------- command construction
\* Every combination of executables on the search path, and every package
\* type an installed config loaded from disk can carry.
AllHosts ==
  [node : BOOLEAN, npx : BOOLEAN, python : BOOLEAN, uvx : BOOLEAN, pipx : BOOLEAN,
   docker : BOOLEAN, dockerd : BOOLEAN]

PackageTypes == {"npm", "pypi", "oci", "mcpb"}

CommandInit ==
  /\ \E e \in CatalogEntries, t \in PackageTypes :
       servers = (e.id :> [ConfigFromDict(ConfigToDict(InstalledServer(e, 0)))
                             EXCEPT !.package_type = t])
  /\ secrets = [id \in DOMAIN servers |-> ("API_KEY" :> "k1")]
  /\ files = [installed |-> SaveInstalled(servers), credentials |-> SaveSecrets(secrets)]
  /\ cache = EmptyCache
  /\ host \in AllHosts
  /\ processes = EmptyMap
  /\ recs = <<>>
  /\ os = <<>>
  /\ mon = <<>>
  /\ det = <<>>
  /\ main = IdleMain
  /\ ready = <<>>
  /\ resp = NoResp
  /\ TransportIdle
  /\ StoreIdle
  /\ exitCode = None

CommandNext ==
  \/ MsgArrive
  \/ \E id \in Ids : HandleStartNew(id)
  \/ DetectDone
  \/ MainAfterDetect
  \/ \E ok \in BOOLEAN : SpawnDone(ok)
  \/ MainAfterSpawn

CommandSpec == CommandInit /\ [][CommandNext]_vars

\* ------------------------------------------------------------------ restart
\* The peer configures args, installs, starts, restarts and uninstalls until
\* one stop task has been detached.
RestartNext ==
  \/ MsgArrive
  \/ \E e \in CatalogEntries : HandleInstall(e, 0)
  \/ \E id \in Ids, args \in ArgLists : Configure(id, args)
  \/ \E id \in Ids : HandleStartNew(id)
  \/ DetectDone
  \/ MainAfterDetect
  \/ \E ok \in BOOLEAN : SpawnDone(ok)
  \/ MainAfterSpawn
  \/ \E id \in Ids : HandleRestart(id)
  \/ MainRestartResume
  \/ TimeoutMain
  \/ \E id \in Ids : det = <<>> /\ HandleUninstall(id)
  \/ DetachedStopBegin(1)
  \/ DetachedStopResume(1)
  \/ TimeoutDet(1)
  \/ \E pid \in 1..MaxRecords : MonitorRun(pid)
  \/ \E pid \in 1..MaxRecords, rc \in {0, 1, 0 - 15, 0 - 9} : OsExit(pid, rc)

RestartSpec == LoadedInit /\ [][RestartNext]_vars

\* -------------------------------------------------------------- persistence
\* The bridge process ends between two steps of its loop and a new one
\* starts: the manager and the secret store load their documents, the runner
\* and the runtime detector start empty.
RestartBridge ==
  /\ servers' = LoadInstalled(files.installed)
  /\ secrets' = LoadSecrets(files.credentials)
  /\ cache' = EmptyCache
  /\ processes' = EmptyMap
  /\ recs' = <<>>
  /\ os' = <<>>
  /\ mon' = <<>>
  /\ det' = <<>>
  /\ main' = IdleMain
  /\ ready' = <<>>
  /\ resp' = NoResp
  /\ UNCHANGED <<unsaved, host, files>>

\* The peer installs, configures, sets secrets, starts and uninstalls, and
\* the bridge is restarted at any point.
PersistNext ==
  \/ MsgArrive
  \/ \E e \in CatalogEntries : HandleInstall(e, 0)
  \/ \E id \in Ids, args \in ArgLists : Configure(id, args)
  \/ \E id \in Ids, m \in SecretMaps : HandleSetSecrets(id, m)
  \/ \E id \in Ids : HandleStartNew(id)
  \/ DetectDone
  \/ MainAfterDetect
  \/ \E ok \in BOOLEAN : SpawnDone(ok)
  \/ MainAfterSpawn
  \/ \E id \in Ids : HandleUninstall(id)
  \/ DetachedStopBegin(1)
  \/ DetachedStopResume(1)
  \/ TimeoutDet(1)
  \/ \E pid \in 1..MaxRecords : MonitorRun(pid)
  \/ \E pid \in 1..MaxRecords, rc \in {0, 1, 0 - 15, 0 - 9} : OsExit(pid, rc)
  \/ RestartBridge

PersistSpec == Init /\ [][PersistNext]_vars

\* Lines a single long-running server prints: enough to fill the buffer.
MaxLines == 1050

LogNext ==
  \/ MsgArrive
  \/ \E id \in Ids : HandleStartNew(id)
  \/ DetectDone
  \/ MainAfterDetect
  \/ \E ok \in BOOLEAN : SpawnDone(ok)
  \/ MainAfterSpawn
  \/ \E pid \in 1..MaxRecords : PumpLine(pid, MaxLines)

LogSpec == LoadedInit /\ [][LogNext]_vars

\* ============================================================== transport
\* ------------------------------------------------------------ byte strings
\* Byte strings and texts are kept in run-length form: a sequence of runs,
\* each a byte (or code point) c repeated n >= 1 times.  A run longer than 1
\* is filler: printable characters inside a JSON string.  Everything else is
\* written one run per byte.
Run(c, n) == [c |-> c, n |-> n]

\* One run of length 1 per code.
Str(codes) == [j \in 1..Len(codes) |-> Run(codes[j], 1)] \o <<>>

\* The total length of the runs lo..hi of t.
RECURSIVE SumN(_, _, _)
SumN(t, lo, hi) ==
  IF lo > hi THEN 0
  ELSE IF lo = hi THEN t[lo].n
  ELSE LET mid == (lo + hi) \div 2
       IN SumN(t, lo, mid) + SumN(t, mid + 1, hi)

\* len()
RLen(t) == SumN(t, 1, Len(t))

\* The sequences q[lo], ..., q[hi] joined.
RECURSIVE Flat(_, _, _)
Flat(q, lo, hi) ==
  IF lo > hi THEN <<>>
  ELSE IF lo = hi THEN q[lo]
  ELSE LET mid == (lo + hi) \div 2
       IN Flat(q, lo, mid) \o Flat(q, mid + 1, hi)

Concat(q) == Flat(q, 1, Len(q))

\* The first k bytes of the runs lo..hi of t.
RECURSIVE TakeSeg(_, _, _, _)
TakeSeg(t, lo, hi, k) ==
  IF k <= 0 THEN <<>>
  ELSE IF lo > hi THEN <<>>
  ELSE IF lo = hi
  THEN IF t[lo].n <= k THEN <<t[lo]>> ELSE <<Run(t[lo].c, k)>>
  ELSE LET mid == (lo + hi) \div 2
           s == SumN(t, lo, mid)
       IN IF s >= k THEN TakeSeg(t, lo, mid, k)
          ELSE SubSeq(t, lo, mid) \o TakeSeg(t, mid + 1, hi, k - s)

\* t[:k]
RTake(t, k) == TakeSeg(t, 1, Len(t), k)

\* The runs lo..hi of t without their first k bytes.
RECURSIVE DropSeg(_, _, _, _)
DropSeg(t, lo, hi, k) ==
  IF lo > hi THEN <<>>
  ELSE IF k <= 0 THEN SubSeq(t, lo, hi)
  ELSE IF lo = hi
  THEN IF t[lo].n <= k THEN <<>> ELSE <<Run(t[lo].c, t[lo].n - k)>>
  ELSE LET mid == (lo + hi) \div 2
           s == SumN(t, lo, mid)
       IN IF s > k THEN DropSeg(t, lo, mid, k) \o SubSeq(t, mid + 1, hi)
          ELSE DropSeg(t, mid + 1, hi, k - s)

\* t[k:]
RDrop(t, k) == DropSeg(t, 1, Len(t), k)

\* The codes of a short string, one by one.
RECURSIVE Expand(_)
Expand(t) ==
  IF t = <<>> THEN <<>>
  ELSE IF Head(t).n = 1 THEN <<Head(t).c>> \o Expand(Tail(t))
  ELSE <<Head(t).c>> \o Expand(<<Run(Head(t).c, Head(t).n - 1)>> \o Tail(t))

\* The positions lo..hi in order.
Range(lo, hi) == [j \in 1..(hi - lo + 1) |-> lo + j - 1]

\* F applied to the value of e, with e evaluated once.
Bind(e, F(_)) == CHOOSE y \in {F(x) : x \in {e}} : TRUE

\* ------------------------------------------------- unsigned 32-bit lengths
\* An unsigned 32-bit integer as two 16-bit halves: the value is
\* hi * 65536 + lo.
U32(hi, lo) == [hi |-> hi, lo |-> lo]

ToU32(n) == U32(n \div 65536, n % 65536)

ToInt(u) == u.hi * 65536 + u.lo

MAX_MESSAGE_SIZE == 1048576

\* u > n for an unsigned 32-bit u and a small n.
Exceeds(u, n) ==
  u.hi > n \div 65536 \/ (u.hi = n \div 65536 /\ u.lo > n % 65536)

\* struct.pack("<I", n): least significant byte first.
PackLE(u) == <<u.lo % 256, u.lo \div 256, u.hi % 256, u.hi \div 256>>

\* What a call gives: a value or an exception.
Returned(v) == [ok |-> TRUE, val |-> v, err |-> ""]

Raised(e) == [ok |-> FALSE, val |-> None, err |-> e]

\* Variant: the prefix is read most significant byte first.
decode_length_prefix_bigendian(data) ==
  IF Len(data) # 4 THEN Raised("InvalidMessageError")
  ELSE Returned(U32(data[2] + 256 * data[1], data[4] + 256 * data[3]))

decode_length_prefix(data) ==
  IF Len(data) # 4 THEN Raised("InvalidMessageError")
  ELSE Returned(U32(data[3] + 256 * data[4], data[1] + 256 * data[2]))

\* ------------------------------------------------------------ JSON values
\* A decoded JSON value: k is its kind, the other fields hold what the kind
\* needs.  items of a list or dict are key/value pairs in order (a list's
\* keys are empty).
JNull == [k |-> "null", b |-> FALSE, i |-> 0, s |-> <<>>, items |-> <<>>]

JBool(b) == [JNull EXCEPT !.k = "bool", !.b = b]

JInt(i) == [JNull EXCEPT !.k = "int", !.i = i]

JStr(s) == [JNull EXCEPT !.k = "str", !.s = s]

JList(items) == [JNull EXCEPT !.k = "list", !.items = items]

JDict(items) == [JNull EXCEPT !.k = "dict", !.items = items]

Item(key, val) == [key |-> key, val |-> val]

\* [v1, v2, ...]
ListOf(vals) == JList([j \in 1..Len(vals) |-> Item(<<>>, vals[j])])

\* dict.get(key, default)
RECURSIVE Lookup(_, _, _)
Lookup(items, key, default) ==
  IF items = <<>> THEN default
  ELSE IF Head(items).key = key THEN Head(items).val
  ELSE Lookup(Tail(items), key, default)

Get(m, key, default) == Lookup(m.items, key, default)

\* d[key] = val: a key already there keeps its place.
DictSet(items, key, val) ==
  IF \E j \in 1..Len(items) : items[j].key = key
  THEN [j \in 1..Len(items) |->
          IF items[j].key = key THEN Item(key, val) ELSE items[j]]
  ELSE Append(items, Item(key, val))

\* bool(v): None, False, 0, "", [] and {} are falsy.
Truthy(v) ==
  CASE v.k = "null" -> FALSE
    [] v.k = "bool" -> v.b
    [] v.k = "int" -> v.i # 0
    [] v.k = "str" -> v.s # <<>>
    [] OTHER -> v.items # <<>>

\* hash(v) succeeds: lists and dicts are unhashable.
Hashable(v) == v.k \notin {"list", "dict"}

\* t repeated n times.
Times(t, n) == Concat([j \in 1..n |-> t])

\* -------------------------------------------------------------- json.dumps
RECURSIVE Digits(_)
Digits(n) == IF n < 10 THEN <<48 + n>> ELSE Digits(n \div 10) \o <<48 + (n % 10)>>

DumpInt(i) == IF i < 0 THEN <<45>> \o Digits(0 - i) ELSE Digits(i)

HexChar(d) == IF d < 10 THEN 48 + d ELSE 87 + d

\* \uXXXX
U4(cp) ==
  <<92, 117, HexChar(cp \div 4096), HexChar((cp \div 256) % 16),
    HexChar((cp \div 16) % 16), HexChar(cp % 16)>>

\* Printable ASCII other than the quote and the backslash is written as is.
Plain(c) == c >= 32 /\ c <= 126 /\ c # 34 /\ c # 92

\* Variant: the quote is written as is.
EscapeChar_rawquote(c) ==
  IF c = 34 THEN <<34>>
  ELSE IF c = 92 THEN <<92, 92>>
  ELSE IF c = 10 THEN <<92, 110>>
  ELSE IF c = 13 THEN <<92, 114>>
  ELSE IF c = 9 THEN <<92, 116>>
  ELSE IF c = 8 THEN <<92, 98>>
  ELSE IF c = 12 THEN <<92, 102>>
  ELSE IF c < 65536 THEN U4(c)
  ELSE U4(55296 + ((c - 65536) \div 1024)) \o U4(56320 + ((c - 65536) % 1024))

\* ensure_ascii: short escapes, \uXXXX, and a surrogate pair above the BMP.
EscapeChar(c) ==
  IF c = 34 THEN <<92, 34>>
  ELSE IF c = 92 THEN <<92, 92>>
  ELSE IF c = 10 THEN <<92, 110>>
  ELSE IF c = 13 THEN <<92, 114>>
  ELSE IF c = 9 THEN <<92, 116>>
  ELSE IF c = 8 THEN <<92, 98>>
  ELSE IF c = 12 THEN <<92, 102>>
  ELSE IF c < 65536 THEN U4(c)
  ELSE U4(55296 + ((c - 65536) \div 1024)) \o U4(56320 + ((c - 65536) % 1024))

EscRun(r) == IF Plain(r.c) THEN <<r>> ELSE Times(Str(EscapeChar(r.c)), r.n)

DumpStr(s) ==
  Str(<<34>>) \o Concat([j \in 1..Len(s) |-> EscRun(s[j])]) \o Str(<<34>>)

\* json.dumps(v, separators=(",", ":"))
RECURSIVE Dumps(_)
Dumps(v) ==
  CASE v.k = "null" -> Str(<<110, 117, 108, 108>>)
    [] v.k = "bool" -> IF v.b THEN Str(<<116, 114, 117, 101>>)
                       ELSE Str(<<102, 97, 108, 115, 101>>)
    [] v.k = "int" -> Str(DumpInt(v.i))
    [] v.k = "str" -> DumpStr(v.s)
    [] v.k = "list" ->
         Str(<<91>>)
         \o Concat([j \in 1..Len(v.items) |->
                      (IF j > 1 THEN Str(<<44>>) ELSE <<>>) \o Dumps(v.items[j].val)])
         \o Str(<<93>>)
    [] OTHER ->
         Str(<<123>>)
         \o Concat([j \in 1..Len(v.items) |->
                      (IF j > 1 THEN Str(<<44>>) ELSE <<>>)
                      \o DumpStr(v.items[j].key) \o Str(<<58>>)
                      \o Dumps(v.items[j].val)])
         \o Str(<<125>>)

\* ------------------------------------------------------------------ UTF-8
\* str.encode("utf-8") of one code point.
Utf8Char(c) ==
  IF c < 128 THEN <<c>>
  ELSE IF c < 2048 THEN <<192 + (c \div 64), 128 + (c % 64)>>
  ELSE IF c < 65536
  THEN <<224 + (c \div 4096), 128 + ((c \div 64) % 64), 128 + (c % 64)>>
  ELSE <<240 + (c \div 262144), 128 + ((c \div 4096) % 64),
         128 + ((c \div 64) % 64), 128 + (c % 64)>>

Utf8Encode(t) ==
  Concat([j \in 1..Len(t) |->
            IF t[j].c < 128 THEN <<t[j]>> ELSE Times(Str(Utf8Char(t[j].c)), t[j].n)])

\* What bytes.decode gives for UnicodeDecodeError.
BadText == <<Run(0 - 1, 1)>>

\* The byte at position j of d, or 0 past the end.
ByteAt(d, j) == IF j >= 1 /\ j <= Len(d) /\ d[j].n = 1 THEN d[j].c ELSE 0

Cont(b) == b >= 128 /\ b <= 191

\* How many continuation bytes the byte b announces.
Need(b) ==
  IF b >= 194 /\ b <= 223 THEN 1
  ELSE IF b >= 224 /\ b <= 239 THEN 2
  ELSE IF b >= 240 /\ b <= 244 THEN 3
  ELSE 0

\* A well-formed multi-byte sequence starts at position j of d.
LeadOk(d, j) ==
  LET b == ByteAt(d, j)
      b2 == ByteAt(d, j + 1)
  IN /\ Need(b) > 0
     /\ \A m \in 1..Need(b) : Cont(ByteAt(d, j + m))
     /\ (b = 224 => b2 >= 160) /\ (b = 237 => b2 <= 159)
     /\ (b = 240 => b2 >= 144) /\ (b = 244 => b2 <= 143)

\* The code point of the sequence that starts at j.
CodePoint(d, j) ==
  LET b == ByteAt(d, j) IN
  IF Need(b) = 1 THEN (b - 192) * 64 + (ByteAt(d, j + 1) - 128)
  ELSE IF Need(b) = 2
  THEN (b - 224) * 4096 + (ByteAt(d, j + 1) - 128) * 64 + (ByteAt(d, j + 2) - 128)
  ELSE (b - 240) * 262144 + (ByteAt(d, j + 1) - 128) * 4096
       + (ByteAt(d, j + 2) - 128) * 64 + (ByteAt(d, j + 3) - 128)

\* The byte at j continues a sequence that starts up to 3 bytes before it.
Continues(d, j) ==
  \E q \in {j - 3, j - 2, j - 1} : q >= 1 /\ LeadOk(d, q) /\ j <= q + Need(ByteAt(d, q))

\* bytes.decode("utf-8")
Utf8Decode(data) ==
  Bind(data, LAMBDA d :
    IF \A j \in 1..Len(d) : d[j].c < 128 THEN d
    ELSE IF \A j \in 1..Len(d) : d[j].c < 128 \/ LeadOk(d, j) \/ Continues(d, j)
    THEN Bind(SelectSeq(Range(1, Len(d)), LAMBDA j : ~Cont(d[j].c)), LAMBDA starts :
           [m \in 1..Len(starts) |->
              IF d[starts[m]].c < 128 THEN d[starts[m]]
              ELSE Run(CodePoint(d, starts[m]), 1)] \o <<>>)
    ELSE BadText)

\* -------------------------------------------------------------- json.loads
\* The text is scanned by position.  Numbers with a fraction or an exponent
\* and the constants NaN and Infinity are not among the inputs.
CharAt(a, j) == IF j >= 1 /\ j <= Len(a) THEN a[j].c ELSE 0 - 1

\* The number of backslashes right before position j is even.
BsEven(a, j) ==
  IF CharAt(a, j - 1) # 92 THEN TRUE
  ELSE LET q == CHOOSE q \in 0..(j - 1) :
                  /\ CharAt(a, q) # 92
                  /\ \A m \in (q + 1)..(j - 1) : CharAt(a, m) = 92
       IN (j - 1 - q) % 2 = 0

Ws(c) == c \in {32, 9, 10, 13}

Punct(c) == c \in {123, 125, 91, 93, 58, 44}

HexVal(c) ==
  IF c >= 48 /\ c <= 57 THEN c - 48
  ELSE IF c >= 97 /\ c <= 102 THEN c - 87
  ELSE IF c >= 65 /\ c <= 70 THEN c - 55
  ELSE 0 - 1

\* The value of the four hex digits of the \uXXXX at position p, or -1.
Hex4(a, p) ==
  LET h == [d \in 1..4 |-> HexVal(CharAt(a, p + 1 + d))] IN
  IF \E d \in 1..4 : h[d] < 0 THEN 0 - 1
  ELSE h[1] * 4096 + h[2] * 256 + h[3] * 16 + h[4]

\* The character a one-letter escape stands for, or -1.
Unescape(c) ==
  CASE c = 34 -> 34
    [] c = 92 -> 92
    [] c = 47 -> 47
    [] c = 98 -> 8
    [] c = 102 -> 12
    [] c = 110 -> 10
    [] c = 114 -> 13
    [] c = 116 -> 9
    [] OTHER -> 0 - 1

IsDigit(c) == c >= 48 /\ c <= 57

RECURSIVE ParseDigits(_, _)
ParseDigits(codes, acc) ==
  IF codes = <<>> THEN acc
  ELSE ParseDigits(Tail(codes), acc * 10 + (Head(codes) - 48))

\* A token: a string or an atom with its value v, a punctuation mark c, or
\* something that is no JSON token.
Tok(t, c, v) == [t |-> t, c |-> c, v |-> v]

BadTok == Tok("bad", 0, JNull)

\* -?(0|[1-9][0-9]*) of up to 9 digits.
ParseInt(codes) ==
  LET neg == codes # <<>> /\ Head(codes) = 45
      digits == IF neg THEN Tail(codes) ELSE codes
  IN IF /\ digits # <<>>
        /\ Len(digits) <= 9
        /\ \A j \in 1..Len(digits) : IsDigit(digits[j])
        /\ (Len(digits) > 1 => digits[1] # 48)
     THEN Tok("atom", 0, JInt(IF neg THEN 0 - ParseDigits(digits, 0)
                              ELSE ParseDigits(digits, 0)))
     ELSE BadTok

\* null, true, false or an integer.
Literal(codes) ==
  IF codes = <<110, 117, 108, 108>> THEN Tok("atom", 0, JNull)
  ELSE IF codes = <<116, 114, 117, 101>> THEN Tok("atom", 0, JBool(TRUE))
  ELSE IF codes = <<102, 97, 108, 115, 101>> THEN Tok("atom", 0, JBool(FALSE))
  ELSE ParseInt(codes)

\* An escape starts at position p of a.
EscAt(a, esc, p) == p >= 1 /\ p <= Len(a) /\ esc[p]

\* \uD800..\uDBFF at p: the first half of a surrogate pair.
IsHigh(a, esc, p) ==
  /\ EscAt(a, esc, p) /\ CharAt(a, p + 1) = 117
  /\ Hex4(a, p) >= 55296 /\ Hex4(a, p) <= 56319

\* \uDC00..\uDFFF at p: the second half.
IsLow(a, esc, p) ==
  /\ EscAt(a, esc, p) /\ CharAt(a, p + 1) = 117
  /\ Hex4(a, p) >= 56320 /\ Hex4(a, p) <= 57343

\* Position p is inside an escape that starts before it.
EscBody(a, esc, p) ==
  \/ EscAt(a, esc, p - 1)
  \/ \E d \in 2..5 : EscAt(a, esc, p - d) /\ CharAt(a, p - d + 1) = 117
  \/ IsLow(a, esc, p) /\ IsHigh(a, esc, p - 6)

\* The character that starts at position p of a string.
CharVal(a, esc, p) ==
  IF ~esc[p] THEN a[p]
  ELSE IF CharAt(a, p + 1) # 117 THEN Run(Unescape(CharAt(a, p + 1)), 1)
  ELSE IF IsHigh(a, esc, p) /\ IsLow(a, esc, p + 6)
  THEN Run(65536 + (Hex4(a, p) - 55296) * 1024 + (Hex4(a, p + 6) - 56320), 1)
  ELSE Run(Hex4(a, p), 1)

\* The string whose characters are at lo..hi, given the positions esc where
\* an escape starts.
ParseString(a, esc, lo, hi) ==
  IF \A p \in lo..hi :
       /\ a[p].c >= 32
       /\ esc[p] => \/ Unescape(CharAt(a, p + 1)) >= 0
                    \/ CharAt(a, p + 1) = 117 /\ Hex4(a, p) >= 0
  THEN Bind(SelectSeq(Range(lo, hi), LAMBDA p : ~EscBody(a, esc, p)),
            LAMBDA starts :
              Tok("str", 0,
                  JStr([m \in 1..Len(starts) |-> CharVal(a, esc, starts[m])] \o <<>>)))
  ELSE BadTok

\* For each position, the number of the string it is in (quotes included),
\* or 0; dl holds the positions of the quotes that delimit strings.
StrOf(a, dl) ==
  [j \in 1..Len(a) |->
     IF \E k \in 1..(Len(dl) \div 2) : dl[2 * k - 1] <= j /\ j <= dl[2 * k]
     THEN CHOOSE k \in 1..(Len(dl) \div 2) : dl[2 * k - 1] <= j /\ j <= dl[2 * k]
     ELSE 0] \o <<>>

\* Position j is part of a word: outside strings, no space, no punctuation.
WordChar(a, strOf, j) ==
  /\ j >= 1 /\ j <= Len(a)
  /\ strOf[j] = 0 /\ ~Ws(a[j].c) /\ ~Punct(a[j].c)

\* The word that starts at p.
Word(a, strOf, p) ==
  LET e == CHOOSE e \in p..Len(a) :
             (\A m \in p..e : WordChar(a, strOf, m)) /\ ~WordChar(a, strOf, e + 1)
  IN IF \E m \in p..e : a[m].n # 1 THEN BadTok
     ELSE Literal([m \in 1..(e - p + 1) |-> a[p + m - 1].c] \o <<>>)

\* A token starts at p.
TokStart(a, dl, strOf, p) ==
  IF strOf[p] > 0 THEN p = dl[2 * strOf[p] - 1]
  ELSE Punct(a[p].c) \/ (WordChar(a, strOf, p) /\ ~WordChar(a, strOf, p - 1))

\* The token that starts at p.
TokAt(a, esc, dl, strOf, p) ==
  IF strOf[p] > 0 THEN ParseString(a, esc, p + 1, dl[2 * strOf[p]] - 1)
  ELSE IF Punct(a[p].c) THEN Tok("punct", a[p].c, JNull)
  ELSE Word(a, strOf, p)

\* The tokens of the text.
Lex(text) ==
  Bind(text, LAMBDA a :
  Bind([j \in 1..Len(a) |-> a[j].c = 92 /\ BsEven(a, j)] \o <<>>, LAMBDA esc :
  Bind(SelectSeq(Range(1, Len(a)), LAMBDA j : a[j].c = 34 /\ BsEven(a, j)), LAMBDA dl :
    IF Len(dl) % 2 # 0 THEN <<BadTok>>
    ELSE Bind(StrOf(a, dl), LAMBDA strOf :
         Bind(SelectSeq(Range(1, Len(a)), LAMBDA p : TokStart(a, dl, strOf, p)),
              LAMBDA starts :
                [m \in 1..Len(starts) |-> TokAt(a, esc, dl, strOf, starts[m])]
                \o <<>>)))))

\* What parsing one value gives: the value and the index of the next token.
Parsed(v, next) == [ok |-> TRUE, v |-> v, next |-> next]

ParseFail == [ok |-> FALSE, v |-> JNull, next |-> 0]

\* Token i is the punctuation mark c.
IsPunct(toks, i, c) == i <= Len(toks) /\ toks[i].t = "punct" /\ toks[i].c = c

RECURSIVE ParseValue(_, _), ParseList(_, _, _), ParseDict(_, _, _)
ParseValue(toks, i) ==
  IF i > Len(toks) THEN ParseFail
  ELSE IF toks[i].t \in {"str", "atom"} THEN Parsed(toks[i].v, i + 1)
  ELSE IF IsPunct(toks, i, 91)
  THEN IF IsPunct(toks, i + 1, 93) THEN Parsed(JList(<<>>), i + 2)
       ELSE ParseList(toks, i + 1, <<>>)
  ELSE IF IsPunct(toks, i, 123)
  THEN IF IsPunct(toks, i + 1, 125) THEN Parsed(JDict(<<>>), i + 2)
       ELSE ParseDict(toks, i + 1, <<>>)
  ELSE ParseFail

ParseList(toks, i, acc) ==
  Bind(ParseValue(toks, i), LAMBDA r :
    IF ~r.ok THEN ParseFail
    ELSE Bind(Append(acc, Item(<<>>, r.v)), LAMBDA items :
           IF IsPunct(toks, r.next, 44) THEN ParseList(toks, r.next + 1, items)
           ELSE IF IsPunct(toks, r.next, 93) THEN Parsed(JList(items), r.next + 1)
           ELSE ParseFail))

ParseDict(toks, i, acc) ==
  IF ~(i <= Len(toks) /\ toks[i].t = "str" /\ IsPunct(toks, i + 1, 58)) THEN ParseFail
  ELSE Bind(ParseValue(toks, i + 2), LAMBDA r :
         IF ~r.ok THEN ParseFail
         ELSE Bind(DictSet(acc, toks[i].v.s, r.v), LAMBDA items :
                IF IsPunct(toks, r.next, 44) THEN ParseDict(toks, r.next + 1, items)
                ELSE IF IsPunct(toks, r.next, 125) THEN Parsed(JDict(items), r.next + 1)
                ELSE ParseFail))

Loads(text) ==
  Bind(Lex(text), LAMBDA toks :
    IF \E j \in 1..Len(toks) : toks[j].t = "bad" THEN Raised("JSONDecodeError")
    ELSE Bind(ParseValue(toks, 1), LAMBDA r :
           IF r.ok /\ r.next = Len(toks) + 1 THEN Returned(r.v)
           ELSE Raised("JSONDecodeError")))

\* ------------------------------------------------------- native_messaging
\* Variant: a payload of exactly the maximum size is refused too.
encode_message_strict(message) ==
  Bind(Utf8Encode(Dumps(message)), LAMBDA payload :
    IF RLen(payload) >= MAX_MESSAGE_SIZE THEN Raised("MessageTooLargeError")
    ELSE Returned(Str(PackLE(ToU32(RLen(payload)))) \o payload))

encode_message(message) ==
  Bind(Utf8Encode(Dumps(message)), LAMBDA payload :
    IF RLen(payload) > MAX_MESSAGE_SIZE THEN Raised("MessageTooLargeError")
    ELSE Returned(Str(PackLE(ToU32(RLen(payload)))) \o payload))

decode_payload(data) ==
  Bind(Utf8Decode(data), LAMBDA text :
    IF text = BadText THEN Raised("InvalidMessageError")
    ELSE Bind(Loads(text), LAMBDA message :
           IF ~message.ok THEN Raised("InvalidMessageError")
           ELSE IF message.val.k # "dict" THEN Raised("InvalidMessageError")
           ELSE message))

\* write_message on the output o: the frame is written and flushed whole, or
\* encode_message raises before anything is written.
write_message(o, message) ==
  Bind(encode_message(message), LAMBDA encoded :
    IF encoded.ok THEN [result |-> encoded, out |-> Append(o, encoded.val)]
    ELSE [result |-> encoded, out |-> o])

\* ------------------------------------------------- the codec, call by call
managerVars == <<servers, secrets, cache, host, processes, recs, os, mon, det,
                 main, ready, resp, files>>

loopVars == <<sent, eof, pos, hdrAt, loop, msg, reply, nread>>

IsPending(r) == r.err = "pending"

\* Code points used in strings: ASCII, a quote, a backslash, a newline, a
\* control character, DEL, Latin-1, the BMP and beyond.
Texts ==
  { <<>>, Str(<<97>>), Str(<<104, 105, 32, 47>>), Str(<<34, 92, 10>>),
    Str(<<1, 127, 9>>), Str(<<233, 9731>>), Str(<<128512>>), <<Run(120, 300)>> }

Atoms ==
  {JNull, JBool(TRUE), JBool(FALSE), JInt(0), JInt(0 - 7), JInt(1048576),
   JDict(<<>>), ListOf(<<>>)}
  \cup {JStr(s) : s \in Texts}

Keys == {Str(<<107>>), Str(<<233, 34>>)}

Nested ==
  {ListOf(<<a, b>>) : a, b \in {JNull, JBool(TRUE), JInt(0 - 7), JStr(Str(<<128512>>)),
                                JDict(<<>>)}}
  \cup {JDict(<<Item(Str(<<97>>),
                     JDict(<<Item(key, ListOf(<<a, JDict(<<Item(key, a)>>)>>))>>))>>) :
          key \in Keys, a \in Atoms}

\* A message of serialized size n + 8: {"a":"xx...x"}.
Big(n) == JDict(<<Item(Str(<<97>>), JStr(<<Run(120, n)>>))>>)

BigSizes ==
  {MAX_MESSAGE_SIZE - 9, MAX_MESSAGE_SIZE - 8, MAX_MESSAGE_SIZE - 7,
   2 * MAX_MESSAGE_SIZE}

Messages ==
  {JDict(<<>>)}
  \cup {JDict(<<Item(key, v)>>) : key \in Keys, v \in Atoms \cup Nested}
  \cup {JDict(<<Item(Str(<<107>>), a), Item(Str(<<233, 34>>), b)>>) :
          a, b \in {JNull, JStr(Str(<<34, 92, 10>>)), ListOf(<<>>)}}

\* Lengths to pack: the halves range over the byte and half-word boundaries.
Lengths ==
  {U32(hi, lo) : hi, lo \in {0, 1, 16, 255, 256, 32767, 32768, 65535}}

\* Byte strings that are not 4 bytes long.
WrongPrefixes ==
  {<<>>, <<1>>, <<1, 2>>, <<1, 2, 3>>, <<1, 2, 3, 4, 5>>, <<0, 0, 0, 0, 0, 0, 0, 0>>}

CodecInputs ==
  {[fn |-> "message", m |-> m, big |-> 0, data |-> <<>>, n |-> U32(0, 0)] : m \in Messages}
  \cup {[fn |-> "message", m |-> Big(n), big |-> n, data |-> <<>>, n |-> U32(0, 0)] :
          n \in BigSizes}
  \cup {[fn |-> "prefix", m |-> JNull, big |-> 0, data |-> PackLE(u), n |-> u] :
          u \in Lengths}
  \cup {[fn |-> "prefix", m |-> JNull, big |-> 0, data |-> d, n |-> U32(0, 0)] :
          d \in WrongPrefixes}

CodecInit ==
  /\ Boot(EmptyMap, EmptyMap)
  /\ LoopIdle
  /\ StoreIdle
  /\ exitCode = None
  /\ cArg \in CodecInputs
  /\ cEnc = Pending
  /\ cLen = Pending
  /\ cDec = Pending

\* write_message(m) on an empty output.
CallWrite ==
  /\ cArg.fn = "message"
  /\ IsPending(cEnc)
  /\ \E w \in {write_message(out, cArg.m)} :
        /\ cEnc' = w.result
        /\ out' = w.out
  /\ UNCHANGED <<managerVars, storeVars, exitCode,
                 sent, eof, pos, hdrAt, loop, msg, reply, nread,
                 cArg, cLen, cDec>>

\* decode_length_prefix(data) on bytes given as such.
CallDecodeLength ==
  /\ cArg.fn = "prefix"
  /\ IsPending(cLen)
  /\ cLen' = decode_length_prefix(cArg.data)
  /\ UNCHANGED <<managerVars, storeVars, exitCode, loopVars, out, cArg, cEnc, cDec>>

\* The reader's side of a written frame: the first 4 bytes are decoded as
\* the length.
CallDecodeWritten ==
  /\ cArg.fn = "message"
  /\ out # <<>>
  /\ IsPending(cLen)
  /\ cLen' = decode_length_prefix(Expand(RTake(out[1], 4)))
  /\ UNCHANGED <<managerVars, storeVars, exitCode, loopVars, out, cArg, cEnc, cDec>>

\* ... and the bytes that follow, as many as the length says, as the payload.
CallDecodePayload ==
  /\ cArg.fn = "message"
  /\ out # <<>>
  /\ ~IsPending(cLen)
  /\ cLen.ok
  /\ IsPending(cDec)
  /\ cDec' = decode_payload(RTake(RDrop(out[1], 4), ToInt(cLen.val)))
  /\ UNCHANGED <<managerVars, storeVars, exitCode, loopVars, out, cArg, cEnc, cLen>>

CodecNext ==
  \/ CallWrite
  \/ CallDecodeLength
  \/ CallDecodeWritten
  \/ CallDecodePayload

CodecSpec == CodecInit /\ [][CodecNext]_vars

\* ----------------------------------------------------------- the wording
\* The texts of the protocol, as code points.
\* "type"
S_type == Str(<<116, 121, 112, 101>>)

\* "request_id"
S_request_id == Str(<<114, 101, 113, 117, 101, 115, 116, 95, 105, 100>>)

\* "error"
S_error == Str(<<101, 114, 114, 111, 114>>)

\* "code"
S_code == Str(<<99, 111, 100, 101>>)

\* "message"
S_message == Str(<<109, 101, 115, 115, 97, 103, 101>>)

\* "details"
S_details == Str(<<100, 101, 116, 97, 105, 108, 115>>)

\* "received_type"
S_received_type == Str(<<114, 101, 99, 101, 105, 118, 101, 100, 95, 116, 121, 112, 101>>)

\* "hello"
S_hello == Str(<<104, 101, 108, 108, 111>>)

\* "pong"
S_pong == Str(<<112, 111, 110, 103>>)

\* "bridge_version"
S_bridge_version == Str(<<98, 114, 105, 100, 103, 101, 95, 118, 101, 114, 115, 105, 111,
    110>>)

\* "server_id"
S_server_id == Str(<<115, 101, 114, 118, 101, 114, 95, 105, 100>>)

\* "get_server_status"
S_get_server_status == Str(<<103, 101, 116, 95, 115, 101, 114, 118, 101, 114, 95, 115,
    116, 97, 116, 117, 115>>)

\* "_result"
S_result == Str(<<95, 114, 101, 115, 117, 108, 116>>)

\* "installed"
S_installed == Str(<<105, 110, 115, 116, 97, 108, 108, 101, 100>>)

\* "invalid_message"
S_invalid_message == Str(<<105, 110, 118, 97, 108, 105, 100, 95, 109, 101, 115, 115, 97,
    103, 101>>)

\* "unknown_message_type"
S_unknown_message_type == Str(<<117, 110, 107, 110, 111, 119, 110, 95, 109, 101, 115, 115,
    97, 103, 101, 95, 116, 121, 112, 101>>)

\* "message_too_large"
S_message_too_large == Str(<<109, 101, 115, 115, 97, 103, 101, 95, 116, 111, 111, 95, 108,
    97, 114, 103, 101>>)

\* "invalid_request"
S_invalid_request == Str(<<105, 110, 118, 97, 108, 105, 100, 95, 114, 101, 113, 117, 101,
    115, 116>>)

\* "Missing 'type' field in message"
S_missing_type == Str(<<77, 105, 115, 115, 105, 110, 103, 32, 39, 116, 121, 112, 101, 39,
    32, 102, 105, 101, 108, 100, 32, 105, 110, 32, 109, 101, 115, 115, 97, 103, 101>>)

\* "Unknown message type: "
S_unknown_type == Str(<<85, 110, 107, 110, 111, 119, 110, 32, 109, 101, 115, 115, 97, 103,
    101, 32, 116, 121, 112, 101, 58, 32>>)

\* "Missing server_id"
S_missing_server_id == Str(<<77, 105, 115, 115, 105, 110, 103, 32, 115, 101, 114, 118,
    101, 114, 95, 105, 100>>)

\* "True"
S_True == Str(<<84, 114, 117, 101>>)

\* "False"
S_False == Str(<<70, 97, 108, 115, 101>>)

\* "None"
S_None == Str(<<78, 111, 110, 101>>)

\* ----------------------------------------------------------------- router
\* The version text of the package.
S_version == Str(<<48, 46, 49, 46, 48>>)

\* str(v) of a hashable value.
PyStr(v) ==
  CASE v.k = "str" -> v.s
    [] v.k = "int" -> Str(DumpInt(v.i))
    [] v.k = "bool" -> IF v.b THEN S_True ELSE S_False
    [] OTHER -> S_None

\* details = NoMessage stands for no details.
make_error_response(request_id, code, message, details) ==
  JDict(<<Item(S_type, JStr(S_error)),
          Item(S_request_id, request_id),
          Item(S_error,
               JDict(<<Item(S_code, JStr(code)), Item(S_message, JStr(message))>>
                     \o (IF details = NoMessage THEN <<>>
                         ELSE <<Item(S_details, details)>>)))>>)

make_result_response(request_type, request_id, kwargs) ==
  JDict(<<Item(S_type, JStr(request_type \o S_result)), Item(S_request_id, request_id)>>
        \o kwargs)

handle_hello(message) ==
  JDict(<<Item(S_type, JStr(S_pong)),
          Item(S_request_id, Get(message, S_request_id, JStr(<<>>))),
          Item(S_bridge_version, JStr(S_version))>>)

\* The id a server_id text names.
IdOf(s) == IF s = Str(<<97>>) THEN "a" ELSE "?"

\* Nothing is installed in the wire-level specification, so the status holds
\* installed = False only; the status of an installed server is what
\* HandleGetStatus answers.
handle_get_server_status(srv, sec, message) ==
  LET request_id == Get(message, S_request_id, JStr(<<>>))
      server_id == Get(message, S_server_id, JStr(<<>>))
  IN IF ~Truthy(server_id)
     THEN make_error_response(request_id, S_invalid_request, S_missing_server_id, NoMessage)
     ELSE LET status == GetStatus(srv, sec, IdOf(PyStr(server_id)))
          IN make_result_response(S_get_server_status, request_id,
                                  <<Item(S_installed, JBool(status.installed))>>)

\* The registered types this specification serves; the peer sends no other
\* registered type.
HANDLERS == {JStr(S_hello), JStr(S_get_server_status)}

\* HANDLERS.get(message_type) hashes the type: a list or a dict raises
\* TypeError.
dispatch_message(srv, sec, message) ==
  LET message_type == Get(message, S_type, JNull)
      request_id == Get(message, S_request_id, JStr(<<>>))
  IN IF ~Truthy(message_type)
     THEN Returned(make_error_response(request_id, S_invalid_message, S_missing_type,
                                       NoMessage))
     ELSE IF ~Hashable(message_type) THEN Raised("TypeError")
     ELSE IF message_type \notin HANDLERS
     THEN Returned(make_error_response(
                     request_id, S_unknown_message_type,
                     S_unknown_type \o PyStr(message_type),
                     JDict(<<Item(S_received_type, message_type)>>)))
     ELSE IF message_type = JStr(S_hello) THEN Returned(handle_hello(message))
     ELSE Returned(handle_get_server_status(srv, sec, message))

\* ---------------------------------------------------------------- reading
\* read() gave nothing more: the None of _read_stdin_sync.
ReturnedNone == [ok |-> TRUE, val |-> None, err |-> "none"]

\* _read_stdin_sync on the bytes of stream from offset p on: what it gives
\* and the offset it leaves the stream at.
read_stdin_sync(stream, p) ==
  LET length_bytes == Expand(RTake(RDrop(stream, p), 4)) IN
  IF Len(length_bytes) < 4
  THEN [result |-> ReturnedNone, pos |-> p + Len(length_bytes)]
  ELSE LET length == decode_length_prefix(length_bytes).val
           avail == RLen(stream) - (p + 4)
       IN IF Exceeds(length, MAX_MESSAGE_SIZE)
          THEN [result |-> Raised("MessageTooLargeError"), pos |-> p + 4]
          ELSE IF avail < ToInt(length)
          THEN [result |-> Raised("InvalidMessageError"), pos |-> RLen(stream)]
          ELSE [result |-> Returned(RTake(RDrop(stream, p + 4), ToInt(length))),
                pos |-> p + 4 + ToInt(length)]

\* read_message without a reader.
read_message(stream, p) ==
  Bind(read_stdin_sync(stream, p), LAMBDA r :
    IF r.result.ok /\ r.result.err # "none"
    THEN [result |-> decode_payload(r.result.val), pos |-> r.pos]
    ELSE r)

\* ------------------------------------------------------------------- peer
\* A frame as the peer writes it: the length of the payload, then the payload.
Frame(payload) == Str(PackLE(ToU32(RLen(payload)))) \o payload

Request(items) == Frame(Utf8Encode(Dumps(JDict(items))))

S_r1 == Str(<<114, 49>>)

\* The requests of the peer: the registered types, a missing, empty,
\* unregistered, numeric and list-valued type, with and without request_id,
\* and a type so long that the answer echoing it twice is over the size cap.
Requests ==
  { Request(<<Item(S_type, JStr(S_hello)), Item(S_request_id, JStr(S_r1))>>),
    Request(<<Item(S_type, JStr(S_hello))>>),
    Request(<<Item(S_type, JStr(S_hello)), Item(S_request_id, JInt(7))>>),
    Request(<<Item(S_request_id, JStr(S_r1))>>),
    Request(<<Item(S_type, JStr(<<>>)), Item(S_request_id, JStr(S_r1))>>),
    Request(<<Item(S_type, JStr(S_pong)), Item(S_request_id, JStr(S_r1))>>),
    Request(<<Item(S_type, JInt(5)), Item(S_request_id, JStr(S_r1))>>),
    Request(<<Item(S_type, ListOf(<<JStr(S_hello)>>)), Item(S_request_id, JStr(S_r1))>>),
    Request(<<Item(S_type, JStr(<<Run(120, 600000)>>)), Item(S_request_id, JStr(S_r1))>>),
    Request(<<Item(S_type, JStr(S_get_server_status)), Item(S_request_id, JStr(S_r1)),
              Item(S_server_id, JStr(Str(<<97>>)))>>),
    Request(<<Item(S_type, JStr(S_get_server_status)), Item(S_request_id, JStr(S_r1))>>) }

\* Frames that are no request: a payload over the size cap, bytes that are
\* not UTF-8, text that is not JSON, JSON that is not an object.
BadFrames ==
  { Frame(Utf8Encode(Dumps(Big(MAX_MESSAGE_SIZE - 7)))),
    Frame(Str(<<255, 254>>)),
    Frame(Str(<<123, 34, 97, 34>>)),
    Frame(Str(<<91, 93>>)) }

Frames == Requests \cup BadFrames

\* The offset at which frame k + 1 of q starts.
RECURSIVE Offset(_, _)
Offset(q, k) == IF k = 0 THEN 0 ELSE Offset(q, k - 1) + RLen(q[k])

\* The offsets at which the frames of q start.
FrameStarts(q) == {Offset(q, k) : k \in 0..(Len(q) - 1)}

\* Where the peer may close the stream: after the last frame, or 1, 2 or 3
\* bytes into its prefix, or one byte before its end.
Closings(q) ==
  LET total == Offset(q, Len(q))
      last == Offset(q, Len(q) - 1)
  IN {total, last + 1, last + 2, last + 3, total - 1}

\* ------------------------------------------------------------- run_bridge
MaxReads == 4

WireInit ==
  /\ Boot(EmptyMap, EmptyMap)
  /\ CodecIdle
  /\ StoreIdle
  /\ exitCode = None
  /\ sent \in {<<f>> : f \in Frames} \cup {<<f, g>> : f \in Frames, g \in Requests}
  /\ eof \in Closings(sent)
  /\ pos = 0
  /\ hdrAt = None
  /\ loop = "read"
  /\ msg = NoMessage
  /\ reply = NoMessage
  /\ out = <<>>
  /\ nread = 0

\* message = await read_message(): None ends the loop, an exception goes to
\* its except clause.
ReadMessage ==
  /\ loop = "read"
  /\ nread < MaxReads
  /\ \E stdin \in {RTake(Concat(sent), eof)} : \E r \in {read_message(stdin, pos)} :
        /\ pos' = r.pos
        /\ msg' = IF r.result.ok /\ r.result.err # "none" THEN r.result.val ELSE NoMessage
        /\ loop' = IF r.result.ok
                   THEN IF r.result.err = "none" THEN "eof" ELSE "dispatch"
                   ELSE IF r.result.err = "MessageTooLargeError" THEN "too_large"
                   ELSE "invalid"
  /\ hdrAt' = pos
  /\ nread' = nread + 1
  /\ reply' = NoMessage
  /\ UNCHANGED <<managerVars, storeVars, exitCode, sent, eof, out, cArg, cEnc, cLen, cDec>>

\* response = await dispatch_message(message, store): an exception is caught
\* by "except Exception" and ends the loop.
Dispatch ==
  /\ loop = "dispatch"
  /\ \E r \in {dispatch_message(servers, secrets, msg)} :
        IF r.ok THEN reply' = r.val /\ loop' = "write"
        ELSE reply' = NoMessage /\ loop' = "crashed"
  /\ UNCHANGED <<managerVars, storeVars, exitCode, sent, eof, pos, hdrAt, msg, out, nread,
                 cArg, cEnc, cLen, cDec>>

\* await write_message(response)
WriteResponse ==
  /\ loop = "write"
  /\ \E w \in {write_message(out, reply)} :
        /\ out' = w.out
        /\ loop' = IF w.result.ok THEN "read" ELSE "too_large"
  /\ UNCHANGED <<managerVars, storeVars, exitCode, sent, eof, pos, hdrAt, msg, reply, nread,
                 cArg, cEnc, cLen, cDec>>

\* The error an except clause writes: request_id is "", message is str(e),
\* kept as the name of the exception.
LoopError(code, e) ==
  JDict(<<Item(S_type, JStr(S_error)),
          Item(S_request_id, JStr(<<>>)),
          Item(S_error, JDict(<<Item(S_code, JStr(code)), Item(S_message, JStr(e))>>))>>)

S_MessageTooLargeError ==
  Str(<<77, 101, 115, 115, 97, 103, 101, 84, 111, 111, 76, 97, 114, 103, 101>>)

S_InvalidMessageError ==
  Str(<<73, 110, 118, 97, 108, 105, 100, 77, 101, 115, 115, 97, 103, 101>>)

\* except MessageTooLargeError, raised by the read or by the write.
WriteTooLarge ==
  /\ loop = "too_large"
  /\ out' = write_message(out, LoopError(S_message_too_large, S_MessageTooLargeError)).out
  /\ loop' = "read"
  /\ UNCHANGED <<managerVars, storeVars, exitCode, sent, eof, pos, hdrAt, msg, reply, nread,
                 cArg, cEnc, cLen, cDec>>

\* except InvalidMessageError
WriteInvalid ==
  /\ loop = "invalid"
  /\ out' = write_message(out, LoopError(S_invalid_message, S_InvalidMessageError)).out
  /\ loop' = "read"
  /\ UNCHANGED <<managerVars, storeVars, exitCode, sent, eof, pos, hdrAt, msg, reply, nread,
                 cArg, cEnc, cLen, cDec>>

WireNext ==
  \/ ReadMessage
  \/ Dispatch
  \/ WriteResponse
  \/ WriteTooLarge
  \/ WriteInvalid

WireSpec == WireInit /\ [][WireNext]_vars

\* The payload of frame k of the output, decoded.
Written(k) == decode_payload(RDrop(out[k], 4)).val

\* --------------------------------------------------------------------- main
\* The exit status main() gives the process: 0 when asyncio.run returns (no
\* sys.exit is reached) and for KeyboardInterrupt, 1 for any other exception
\* that leaves run_bridge.
ExitStatus(how) == IF how \in {"returned", "KeyboardInterrupt"} THEN 0 ELSE 1

\* run_bridge has left its loop by a break, at end of stream or in an except
\* clause: it logs and returns, and so do asyncio.run and main.
MainReturns ==
  /\ exitCode = None
  /\ loop \in {"eof", "crashed"}
  /\ exitCode' = ExitStatus("returned")
  /\ UNCHANGED <<managerVars, storeVars, transport>>

\* An interrupt signal while the bridge runs: KeyboardInterrupt leaves
\* asyncio.run, no except clause of run_bridge catching it.
Interrupt ==
  /\ exitCode = None
  /\ loop' = "interrupted"
  /\ exitCode' = ExitStatus("KeyboardInterrupt")
  /\ UNCHANGED <<managerVars, storeVars, sent, eof, pos, hdrAt, msg, reply, out, nread,
                 cArg, cEnc, cLen, cDec>>

MainNext ==
  \/ WireNext
  \/ MainReturns
  \/ Interrupt

\* The bridge process from its start to its exit.
MainSpec == WireInit /\ [][MainNext]_vars

\* ========================================================= connection store
\* --------------------------------------------------------------- vocabulary
\* ServerStatus; ServerStatus.ERROR has the value of ProcessState.ERROR.
DISCONNECTED == "disconnected"
CONNECTING == "connecting"
CONNECTED == "connected"

\* error_message = None: null in the document.
NoErrorMessage == "null"

\* What str(uuid.uuid4()) can return.
ConnIds == {"u1", "u2"}

\* A well-formed server_id that uuid4 never returns, and a missing one.
UnknownId == "zz"
MissingId == ""

\* label and base_url of the add_server requests.
Endpoints == {<<"one", "http://h1">>, <<"two", "http://h2">>}

\* tool_name of the call_tool requests: given or missing.
ToolNames == {"t", ""}

\* ConnectionResult.message of a failed attempt.
Refused == "Connection failed: refused"

MCPServer(server_id, label, base_url) ==
  [server_id |-> server_id, label |-> label, base_url |-> base_url,
   status |-> DISCONNECTED, error_message |-> NoErrorMessage]

\* get_server's None.
NoServer == MCPServer("", "", "")

\* The dict json.dump writes for a record: status.value and error_message are
\* in it.
to_dict(s) ==
  [server_id |-> s.server_id, label |-> s.label, base_url |-> s.base_url,
   status |-> s.status, error_message |-> s.error_message]

\* ServerStatus(data["status"]) accepts every value to_dict writes.
from_dict(data) ==
  [server_id |-> data.server_id, label |-> data.label, base_url |-> data.base_url,
   status |-> data.status, error_message |-> data.error_message]

\* uuid4 does not repeat itself.
uuid4(used) == ConnIds \ used

\* ------------------------------------------------------------- ServerStore
\* _read: no file gives {}, and so does a file json.load cannot decode.
ReadFile(d) ==
  IF d.state = "complete"
  THEN [sid \in DOMAIN d.servers |-> from_dict(d.servers[sid])]
  ELSE EmptyMap

load_stale(st, d) == [servers |-> ReadFile(d), loaded |-> TRUE]

load(st, d) ==
  [servers |-> [sid \in DOMAIN ReadFile(d) |->
                  [ReadFile(d)[sid] EXCEPT !.status = DISCONNECTED,
                                           !.error_message = NoErrorMessage]],
   loaded |-> TRUE]

ensure_loaded(st, d) == IF st.loaded THEN st ELSE load(st, d)

\* save, first half: open(servers_file, "w") leaves an empty file at the path.
OpenForWrite(d) == [state |-> "empty", servers |-> EmptyMap]

\* save, second half: json.dump and the close of the file.
Dump(st) ==
  [state |-> "complete",
   servers |-> [sid \in DOMAIN st.servers |-> to_dict(st.servers[sid])]]

\* add_server and remove_server up to their save; st is loaded.
add_server(st, server_id, label, base_url) ==
  [st EXCEPT !.servers = [sid \in DOMAIN st.servers \cup {server_id} |->
                            IF sid = server_id
                            THEN MCPServer(server_id, label, base_url)
                            ELSE st.servers[sid]]]

remove_server_lazy(st, server_id) == st

remove_server(st, server_id) ==
  [st EXCEPT !.servers = [sid \in DOMAIN st.servers \ {server_id} |-> st.servers[sid]]]

get_server(st, server_id) ==
  IF server_id \in DOMAIN st.servers THEN st.servers[server_id] ELSE NoServer

\* The records of list_servers, their order left out.
list_servers(st) == {st.servers[sid] : sid \in DOMAIN st.servers}

update_status_all(st, server_id, status, error_message) ==
  [st EXCEPT !.servers = [sid \in DOMAIN st.servers |->
                            [st.servers[sid] EXCEPT !.status = status,
                                                    !.error_message = error_message]]]

update_status(st, server_id, status, error_message) ==
  IF server_id \in DOMAIN st.servers
  THEN [st EXCEPT !.servers[server_id].status = status,
                  !.servers[server_id].error_message = error_message]
  ELSE st

\* ---------------------------------------------------------------- handlers
Response(op, id, code, client) ==
  [op |-> op, id |-> id, tool |-> "", code |-> code, client |-> client]

Suspended(op, id) == [op |-> op, id |-> id]

ServerIds == ConnIds \cup {UnknownId, MissingId}

\* handle_add_server until save has opened the file.
HandleAddServer(label, base_url) ==
  /\ pend = NoCall
  /\ \E s \in {ensure_loaded(store, disk)} : \E id \in uuid4(issued) :
        /\ store' = add_server(s, id, label, base_url)
        /\ issued' = issued \cup {id}
        /\ pend' = Suspended("add_server", id)
  /\ disk' = OpenForWrite(disk)
  /\ UNCHANGED <<managerVars, transport, connected, sresp, exitCode>>

\* handle_remove_server: until save has opened the file, or to its not_found.
HandleRemoveServer(id) ==
  /\ pend = NoCall
  /\ \E s \in {ensure_loaded(store, disk)} :
        IF id = MissingId
        THEN /\ sresp' = Response("remove_server", id, "invalid_params", FALSE)
             /\ UNCHANGED <<store, disk, pend>>
        ELSE IF id \in DOMAIN s.servers
        THEN /\ store' = remove_server(s, id)
             /\ disk' = OpenForWrite(disk)
             /\ pend' = Suspended("remove_server", id)
             /\ UNCHANGED sresp
        ELSE /\ store' = s
             /\ sresp' = Response("remove_server", id, "not_found", FALSE)
             /\ UNCHANGED <<disk, pend>>
  /\ UNCHANGED <<managerVars, transport, connected, issued, exitCode>>

\* The rest of save, and the handler's result.
SaveWrite ==
  /\ pend.op \in {"add_server", "remove_server"}
  /\ disk' = Dump(store)
  /\ sresp' = Response(pend.op, pend.id, "ok", FALSE)
  /\ pend' = NoCall
  /\ UNCHANGED <<managerVars, transport, store, connected, issued, exitCode>>

HandleListServers ==
  /\ pend = NoCall
  /\ store' = ensure_loaded(store, disk)
  /\ sresp' = Response("list_servers", MissingId, "ok", FALSE)
  /\ UNCHANGED <<managerVars, transport, disk, connected, issued, pend, exitCode>>

\* handle_connect_server until client.connect is awaited.
HandleConnectServer(id) ==
  /\ pend = NoCall
  /\ \E s \in {ensure_loaded(store, disk)} :
        IF id = MissingId
        THEN /\ sresp' = Response("connect_server", id, "invalid_params", FALSE)
             /\ UNCHANGED <<store, pend>>
        ELSE IF get_server(s, id) = NoServer
        THEN /\ store' = s
             /\ sresp' = Response("connect_server", id, "not_found", FALSE)
             /\ UNCHANGED pend
        ELSE /\ store' = update_status(s, id, CONNECTING, NoErrorMessage)
             /\ pend' = Suspended("connect_server", id)
             /\ UNCHANGED sresp
  /\ UNCHANGED <<managerVars, transport, disk, connected, issued, exitCode>>

\* What handle_connect_server leaves and answers for a ConnectionResult.
ConnectOutcome_swallowed(success) ==
  IF success
  THEN [status |-> CONNECTED, error_message |-> NoErrorMessage, code |-> "ok"]
  ELSE [status |-> CONNECTING, error_message |-> NoErrorMessage,
        code |-> "connection_failed"]

ConnectOutcome(success) ==
  IF success
  THEN [status |-> CONNECTED, error_message |-> NoErrorMessage, code |-> "ok"]
  ELSE [status |-> ERROR, error_message |-> Refused, code |-> "connection_failed"]

\* StubMCPClient.connect returns a ConnectionResult, whatever happens (a
\* success after it has added the base URL to its connected set), and the
\* handler takes it.
ConnectReturns(success) ==
  /\ pend.op = "connect_server"
  /\ connected' = IF success
                  THEN connected \cup {store.servers[pend.id].base_url}
                  ELSE connected
  /\ \E o \in {ConnectOutcome(success)} :
        /\ store' = update_status(store, pend.id, o.status, o.error_message)
        /\ sresp' = Response("connect_server", pend.id, o.code, TRUE)
  /\ pend' = NoCall
  /\ UNCHANGED <<managerVars, transport, disk, issued, exitCode>>

HandleDisconnectServer(id) ==
  /\ pend = NoCall
  /\ \E s \in {ensure_loaded(store, disk)} :
        IF id = MissingId
        THEN /\ sresp' = Response("disconnect_server", id, "invalid_params", FALSE)
             /\ UNCHANGED <<store, connected>>
        ELSE IF get_server(s, id) = NoServer
        THEN /\ store' = s
             /\ sresp' = Response("disconnect_server", id, "not_found", FALSE)
             /\ UNCHANGED connected
        ELSE /\ connected' = connected \ {s.servers[id].base_url}
             /\ store' = update_status(s, id, DISCONNECTED, NoErrorMessage)
             /\ sresp' = Response("disconnect_server", id, "ok", TRUE)
  /\ UNCHANGED <<managerVars, transport, disk, issued, pend, exitCode>>

\* The handlers that need a connected record.
ClientOps == {"list_tools", "list_resources", "list_prompts", "call_tool"}

\* What the handler makes of the stub client's answer: the lists are empty
\* results, call_tool is "not yet implemented".
ClientAnswer(op) == IF op = "call_tool" THEN "tool_error" ELSE "ok"

\* handle_list_tools, handle_list_resources, handle_list_prompts (tool_name
\* is not looked at) and handle_call_tool.
ClientCode_unchecked(s, op, id, tool_name) ==
  IF id = MissingId THEN "invalid_params"
  ELSE IF op = "call_tool" /\ tool_name = "" THEN "invalid_params"
  ELSE IF get_server(s, id) = NoServer THEN "not_found"
  ELSE ClientAnswer(op)

ClientCode(s, op, id, tool_name) ==
  IF id = MissingId THEN "invalid_params"
  ELSE IF op = "call_tool" /\ tool_name = "" THEN "invalid_params"
  ELSE IF get_server(s, id) = NoServer THEN "not_found"
  ELSE IF get_server(s, id).status # CONNECTED THEN "not_connected"
  ELSE ClientAnswer(op)

HandleClientOp(op, id, tool_name) ==
  /\ pend = NoCall
  /\ \E s \in {ensure_loaded(store, disk)} : \E code \in {ClientCode(s, op, id, tool_name)} :
        /\ store' = IF code = "invalid_params" THEN store ELSE s
        /\ sresp' = [op |-> op, id |-> id, tool |-> tool_name, code |-> code,
                     client |-> code = ClientAnswer(op)]
  /\ UNCHANGED <<managerVars, transport, disk, connected, issued, pend, exitCode>>

\* The bridge process ends, at any point, and a new one starts on the same
\* data directory.
Restart ==
  /\ store' = NewStore
  /\ connected' = {}
  /\ pend' = NoCall
  /\ sresp' = NoResponse
  /\ UNCHANGED <<managerVars, transport, disk, issued, exitCode>>

BridgeNext ==
  \/ \E e \in Endpoints : HandleAddServer(e[1], e[2])
  \/ \E id \in ServerIds : HandleRemoveServer(id)
  \/ SaveWrite
  \/ HandleListServers
  \/ \E id \in ServerIds : HandleConnectServer(id)
  \/ \E success \in BOOLEAN : ConnectReturns(success)
  \/ \E id \in ServerIds : HandleDisconnectServer(id)
  \/ \E op \in ClientOps : \E id \in ServerIds : \E t \in ToolNames :
        HandleClientOp(op, id, t)
  \/ Restart

\* The bridge serving connection requests.
BridgeSpec == Init /\ [][BridgeNext]_vars

\* --------------------------------------------------- the store, call by call
Statuses == {<<DISCONNECTED, NoErrorMessage>>, <<CONNECTING, NoErrorMessage>>,
             <<CONNECTED, NoErrorMessage>>, <<ERROR, Refused>>}

\* update_status called on the store directly, as the tests do.
UpdateStatus(id, status, error_message) ==
  /\ pend = NoCall
  /\ store' = update_status(ensure_loaded(store, disk), id, status, error_message)
  /\ sresp' = Response("update_status", id, status, FALSE)
  /\ UNCHANGED <<managerVars, transport, disk, connected, issued, pend, exitCode>>

StoreNext ==
  \/ \E e \in Endpoints : HandleAddServer(e[1], e[2])
  \/ \E id \in ServerIds : HandleRemoveServer(id)
  \/ SaveWrite
  \/ HandleListServers
  \/ \E id \in ConnIds \cup {UnknownId} : \E st \in Statuses : UpdateStatus(id, st[1], st[2])
  \/ Restart

StoreSpec == Init /\ [][StoreNext]_vars

\* ================================================================= claims
\* Helpers of the properties: they read the state, never the operators above.
StateOf(id) == IF id \in DOMAIN processes THEN recs[processes[id]].state ELSE "none"

\* The main loop runs its dispatch step on this transition.
MainResponds == ready # <<>> /\ Head(ready) = MainTask /\ main.pc = "read" /\ resp' # resp

\* This transition is the handling of start_installed for id.
StartStep(id) ==
  /\ ready # <<>> /\ Head(ready) = MainTask /\ main.pc = "read"
  /\ \/ resp' # resp /\ resp'.sid = id /\ resp'.type = "start_installed_result"
     \/ resp' # resp /\ resp'.sid = id /\ resp'.type = "error" /\ resp'.code = "start_error"
     \/ main'.pc \in {"detect", "spawn"} /\ main'.sid = id

\* The names of the required variables flagged secret that have no stored value.
MissingNames(id) ==
  {servers[id].required_env_vars[i].name : i \in
     {j \in 1..Len(servers[id].required_env_vars) :
        /\ servers[id].required_env_vars[j].isSecret
        /\ servers[id].required_env_vars[j].name \notin
             (IF id \in DOMAIN secrets THEN DOMAIN secrets[id] ELSE {})}}

SeqRange(q) == {q[i] : i \in 1..Len(q)}

\* The needed runtime of a package type is not on the host.
RuntimeMissing(package_type) ==
  IF package_type = "npm" THEN ~host.node
  ELSE IF package_type = "pypi" THEN ~host.python
  ELSE ~(host.docker /\ host.dockerd)

ProcsOf(r) == {pid \in 1..Len(os) : os[pid].rec = r}

\* C1: start_server on an id whose record is running returns that record
\* unchanged (state, pid, started_at) and spawns nothing: no new record, no new
\* OS process, no new monitor.
C1_StartRunningIdempotent ==
  [][\A id \in Ids :
       (StartStep(id) /\ StateOf(id) = RUNNING /\ id \in DOMAIN servers /\ MissingNames(id) = {})
       => /\ recs' = recs /\ processes' = processes /\ os' = os /\ mon' = mon
          /\ main'.pc = "read"
          /\ resp'.type = "start_installed_result"
          /\ resp'.rec = processes[id]
          /\ resp'.process = recs[processes[id]]]_vars

C1_Witness ==
  /\ resp.type = "start_installed_result"
  /\ resp.process.state = RUNNING
  /\ mon[resp.process.pid] # "scheduled"

\* C2: when a stop_server call returns, the OS process of the record it found
\* has exited, whether the call came from stop_installed or from the stop task
\* of uninstall.
C2_StopReturnsAfterExit ==
  /\ (resp.type = "stop_installed_result" /\ resp.rec # NoRec)
       => \A pid \in ProcsOf(resp.rec) : os[pid].status = "exited"
  /\ \A k \in 1..Len(det) :
       (det[k].pc = "done" /\ det[k].rec # NoRec)
       => \A pid \in ProcsOf(det[k].rec) : os[pid].status = "exited"

\* C3: a record that stop_server has taken to stopping or stopped is never
\* recorded as anything else afterwards, whatever the exit code and whoever
\* sees the exit first.
C3_StoppedStaysStopped ==
  [][\A r \in 1..Len(recs) :
       recs[r].state \in {STOPPING, STOPPED} => recs'[r].state \in {STOPPING, STOPPED}]_vars

\* C4: when the exit monitor sees the exit of a process whose record is
\* running, a non-zero code gives crashed with exit code, stop time and error
\* message, and code 0 gives stopped; a crashed record does not change again.
C4_ExitWhileRunning ==
  [][\A pid \in 1..Len(os) :
       LET r == os[pid].rec IN
       /\ (mon[pid] # "done" /\ mon'[pid] = "done" /\ recs[r].state = RUNNING)
            => /\ recs'[r].exit_code = os[pid].rc
               /\ recs'[r].stopped_at # None
               /\ IF os[pid].rc # 0
                  THEN recs'[r].state = CRASHED /\ recs'[r].error_message # ""
                  ELSE recs'[r].state = STOPPED
       /\ recs[r].state = CRASHED => recs'[r] = recs[r]]_vars

C4_Witness ==
  \E r \in 1..Len(recs) :
    /\ recs[r].state = CRASHED
    /\ recs[r].exit_code = 1
    /\ recs[r].stopped_at # None
    /\ recs[r].error_message = "exited"

C6_StopNoopSucceeds ==
  (resp.type = "stop_installed_result"
   /\ (resp.rec = NoRec \/ recs[resp.rec].state \in {STOPPED, CRASHED, ERROR}))
  => resp.success

\* C7: a record whose package type needs a runtime the host lacks is starting
\* or error, has no pid and no process handle, no OS process was spawned for
\* it, and the response of its start is a result carrying state error with a
\* message, not an error response.
C7_RuntimeUnavailable ==
  /\ [](\A r \in 1..Len(recs) :
         RuntimeMissing(recs[r].package_type)
         => /\ recs[r].state \in {STARTING, ERROR}
            /\ recs[r].pid = None /\ recs[r].process = None
            /\ ProcsOf(r) = {}
            /\ recs[r].state = ERROR => recs[r].error_message # ""
            /\ recs[r].state = STARTING => (main.pc = "detect" /\ main.rec = r))
  /\ [][\A r \in 1..Len(recs') :
         (RuntimeMissing(recs'[r].package_type) /\ recs'[r].state = ERROR
          /\ (r > Len(recs) \/ recs[r].state # ERROR))
         => /\ resp'.type = "start_installed_result"
            /\ resp'.rec = r
            /\ resp'.process = recs'[r]
            /\ main'.pc = "read"]_vars

C7_Witness ==
  /\ resp.type = "start_installed_result"
  /\ resp.process.state = ERROR
  /\ resp.process.error_message = "runtime not available"
  /\ RuntimeMissing(resp.process.package_type)

\* C8: start of an installed id fails listing exactly the flagged-secret
\* required names without a stored value and leaves the runner untouched;
\* when none is missing it does not fail and hands the stored secrets to the
\* runner, which passes them to the process it spawns.
C8_SecretGating ==
  [][/\ \A id \in Ids :
          (StartStep(id) /\ id \in DOMAIN servers)
          => IF MissingNames(id) # {}
             THEN /\ resp'.type = "error" /\ resp'.code = "start_error"
                  /\ SeqRange(resp'.missing) = MissingNames(id)
                  /\ recs' = recs /\ processes' = processes /\ os' = os
                  /\ main'.pc = "read"
             ELSE /\ resp'.type # "error"
                  /\ main'.pc \in {"detect", "spawn"}
                       => main'.env = (IF id \in DOMAIN secrets THEN secrets[id] ELSE EmptyMap)
                  /\ main'.pc = "read"
                       => (id \in DOMAIN processes' /\ resp'.rec = processes'[id])
     /\ Len(os') > Len(os) => os'[Len(os')].env = main.env]_vars

C8_Witness ==
  /\ resp.type = "error" /\ resp.code = "start_error"
  /\ resp.sid \in DOMAIN servers
  /\ resp.missing = <<"API_KEY">>

\* C9: uninstall of an installed id answers true in the same step, without
\* touching any process, and leaves the id not installed and without stored
\* secrets; uninstall of an id that is not installed answers false and
\* changes neither configs, secrets nor processes.
C9_Uninstall ==
  [][(MainResponds /\ resp'.type = "uninstall_server_result")
       => LET id == resp'.sid IN
          IF id \in DOMAIN servers
          THEN /\ resp'.success
               /\ id \notin DOMAIN servers'
               /\ id \notin DOMAIN secrets'
               /\ main'.pc = "read"
               /\ recs' = recs /\ os' = os /\ processes' = processes
          ELSE /\ ~resp'.success
               /\ servers' = servers /\ secrets' = secrets
               /\ recs' = recs /\ os' = os /\ processes' = processes
               /\ det' = det /\ mon' = mon]_vars

C9_Witness ==
  /\ resp.type = "uninstall_server_result"
  /\ resp.success
  /\ resp.sid \notin DOMAIN servers
  /\ resp.sid \notin DOMAIN secrets
  /\ \E pid \in 1..Len(os) :
       os[pid].status = "alive" /\ recs[os[pid].rec].server_id = resp.sid

C11_CanStart ==
  /\ [](\A id \in Ids :
         (resp.type = "get_server_status_result" /\ resp.sid = id /\ id \in DOMAIN servers)
         => /\ resp.installed
            /\ resp.canStart <=> (resp.missing = <<>>)
            /\ SeqRange(resp.missing) = MissingNames(id)
            /\ Len(resp.missing) = Cardinality(MissingNames(id)))
  /\ [][(servers' # servers \/ secrets' # secrets)
         => (ready # <<>> /\ Head(ready) = MainTask /\ main.pc = "read")]_vars

C11_Witness ==
  /\ resp.type = "get_server_status_result"
  /\ resp.installed /\ resp.canStart
  /\ resp.sid \in DOMAIN secrets
  /\ DOMAIN secrets[resp.sid] = {"API_KEY"}
  /\ Len(servers[resp.sid].required_env_vars) = 2

\* The code of an error response, or the empty text.
ErrorCode(r) ==
  IF Get(r, S_type, JNull) = JStr(S_error)
  THEN Get(Get(r, S_error, JDict(<<>>)), S_code, JStr(<<>>)).s
  ELSE <<>>

\* C12: dispatch answers a message without a type with the error
\* invalid_message, a message whose type is not registered with the error
\* unknown_message_type whose details carry the type, and hello with a pong
\* carrying the request_id of the message; dispatching changes no state of
\* the manager.
C12_Dispatch ==
  /\ [](loop \in {"write", "crashed"}
        => LET message_type == Get(msg, S_type, JNull) IN
           IF ~Truthy(message_type)
           THEN loop = "write" /\ ErrorCode(reply) = S_invalid_message
           ELSE IF message_type \notin HANDLERS
           THEN /\ loop = "write"
                /\ ErrorCode(reply) = S_unknown_message_type
                /\ Get(Get(Get(reply, S_error, JNull), S_details, JNull),
                       S_received_type, JNull) = message_type
           ELSE message_type = JStr(S_hello)
                => /\ loop = "write"
                   /\ Get(reply, S_type, JNull) = JStr(S_pong)
                   /\ Get(reply, S_request_id, JNull) = Get(msg, S_request_id, JStr(<<>>)))
  /\ [][loop = "dispatch" => UNCHANGED managerVars]_vars

\* C13: whatever the fields of a decoded message, dispatch returns a response
\* object with a type, and the loop is never ended by an exception.
C13_NoExceptionReachesLoop ==
  /\ loop # "crashed"
  /\ loop = "write" => reply.k = "dict" /\ Get(reply, S_type, JNull).k = "str"

\* C14: a response written while a dispatched request is being served carries
\* the request_id of that request ("" when the request has none).
C14_EchoesRequestId ==
  [][(out' # out /\ msg.k = "dict")
     => Get(decode_payload(RDrop(out'[Len(out')], 4)).val, S_request_id, JNull)
        = Get(msg, S_request_id, JStr(<<>>))]_vars

\* C15: a message is read only when every earlier read has been answered,
\* each message read gets exactly one response, and responses are appended to
\* the output in the order of the reads; the read that meets the end of the
\* stream gets none.
C15_OneResponsePerMessage ==
  /\ [](loop = "read" => Len(out) = nread)
  /\ [](loop = "eof" => Len(out) = nread - 1)
  /\ [](loop = "crashed" => Len(out) = nread)
  /\ [][nread' # nread => Len(out) = nread]_vars
  /\ [][out' # out => out' = Append(out, out'[Len(out')])]_vars

\* C16: the 4 bytes decoded as a length prefix are always the first 4 bytes
\* of a frame the peer sent.
C16_FrameAligned ==
  (hdrAt # None /\ loop # "eof") => hdrAt \in FrameStarts(sent)

\* The prefix read at hdrAt announces, within the size cap, more payload
\* bytes than the stream holds.
ShortPayload ==
  /\ hdrAt # None
  /\ hdrAt + 4 <= eof
  /\ LET length == decode_length_prefix(Expand(RTake(RDrop(Concat(sent), hdrAt), 4))).val
     IN /\ ~Exceeds(length, MAX_MESSAGE_SIZE)
        /\ hdrAt + 4 + ToInt(length) > eof

\* C17: read_message gives None only when the stream ends before any byte of
\* a length prefix; a stream that ends inside the announced payload gives
\* InvalidMessageError.
C17_EofOnlyAtFrameBoundary ==
  /\ loop = "eof" => pos = hdrAt
  /\ ShortPayload => loop \in {"invalid", "read"}

\* C18: write_message of a message whose serialized payload is larger than
\* MAX_MESSAGE_SIZE raises MessageTooLargeError and leaves the output empty;
\* a payload of at most MAX_MESSAGE_SIZE bytes, the cap itself included, is
\* written as one frame of 4 + payload bytes.  A message {"a":"x...x"} with
\* n filler characters has a payload of n + 8 bytes.
C18_OversizeRejected ==
  (cArg.fn = "message" /\ ~IsPending(cEnc))
  => IF cArg.big + 8 > MAX_MESSAGE_SIZE
     THEN cEnc = Raised("MessageTooLargeError") /\ out = <<>>
     ELSE /\ cEnc.ok
          /\ out = <<cEnc.val>>
          /\ (cArg.big > 0 => RLen(out[1]) = cArg.big + 12)

C18_Witness ==
  /\ cArg.fn = "message"
  /\ cArg.big + 8 = MAX_MESSAGE_SIZE + 1
  /\ cEnc = Raised("MessageTooLargeError")
  /\ out = <<>>

\* C19: decode_length_prefix returns n for the 4 little-endian bytes of every
\* unsigned 32-bit n and raises InvalidMessageError for a byte string whose
\* length is not 4; the first 4 bytes of a frame encode_message produced
\* decode to the number of bytes that follow them.
C19_LengthPrefix ==
  /\ (cArg.fn = "prefix" /\ ~IsPending(cLen))
     => IF Len(cArg.data) = 4 THEN cLen = Returned(cArg.n)
        ELSE cLen = Raised("InvalidMessageError")
  /\ (cArg.fn = "message" /\ ~IsPending(cLen))
     => /\ cLen.ok
        /\ ToInt(cLen.val) = RLen(out[1]) - 4
        /\ (cArg.big > 0 => ToInt(cLen.val) = cArg.big + 8)

C19_Witness ==
  /\ cArg.fn = "prefix"
  /\ cArg.n = U32(32768, 255)
  /\ cArg.data = <<255, 0, 0, 128>>
  /\ cLen = Returned(cArg.n)

\* C20: decode_payload of the bytes that follow the length prefix of the
\* frame written for the message m gives m.
C20_RoundTrip ==
  (cArg.fn = "message" /\ ~IsPending(cDec)) => cDec = Returned(cArg.m)

C20_Witness ==
  /\ cArg.fn = "message"
  /\ Get(cArg.m, Str(<<233, 34>>), JNull) = JStr(Str(<<34, 92, 10>>))
  /\ Get(cArg.m, Str(<<107>>), JNull) = ListOf(<<>>)
  /\ cDec = Returned(cArg.m)

\* ------------------------------------------------- connection store claims
\* The store a call works on, once its ensure_loaded is done.
Loaded == ensure_loaded(store, disk)

\* A handler starts op on the record id and is suspended in save.
Saving(op) == pend = NoCall /\ pend'.op = op

\* The handler suspended in op returns.
Returns(op) == pend.op = op /\ pend' = NoCall /\ sresp'.op = op

\* A handler that is never suspended answers.
Answers(op) == pend = NoCall /\ pend' = NoCall /\ sresp' # sresp /\ sresp'.op = op

\* The record id of st as add_server leaves it.
Fresh(st, id) ==
  /\ get_server(st, id).server_id = id
  /\ get_server(st, id).status = DISCONNECTED
  /\ get_server(st, id) \in list_servers(st)

\* C21: after add_server the new record has an id no record had before, is
\* disconnected, is what get_server returns for that id and is in
\* list_servers; after a remove_server that returns true the record is in
\* neither; remove_server of an id the store does not hold returns false
\* and changes neither the store nor the document.
C21_AddRemove ==
  [][/\ Saving("add_server")
        => /\ pend'.id \notin issued
           /\ pend'.id \notin DOMAIN Loaded.servers
     /\ Saving("add_server") => Fresh(store', pend'.id)
     /\ Returns("add_server") => Fresh(store', sresp'.id)
     /\ Saving("remove_server") => pend'.id \in DOMAIN Loaded.servers
     /\ Returns("remove_server")
        => /\ sresp'.code = "ok"
           /\ get_server(store', sresp'.id) = NoServer
           /\ \A s \in list_servers(store') : s.server_id # sresp'.id
     /\ (Answers("remove_server") /\ sresp'.code = "not_found")
        => /\ sresp'.id \notin DOMAIN Loaded.servers
           /\ store'.servers = Loaded.servers
           /\ disk' = disk]_vars

\* The second removal of a record returned false, another record being held.
C21_Witness ==
  /\ sresp = Response("remove_server", "u1", "not_found", FALSE)
  /\ "u1" \in issued
  /\ DOMAIN store.servers = {"u2"}
  /\ disk = Dump(store)

\* A record as a reload shows it.
Reset(s) == [s EXCEPT !.status = DISCONNECTED, !.error_message = NoErrorMessage]

\* C22: whenever the store is loaded and no add_server or remove_server is
\* under way, a new store loaded from the same directory holds the records
\* of this one, with their id, label and base_url, every one disconnected
\* and without error_message.
C22_Reload ==
  (pend = NoCall /\ store.loaded)
  => /\ DOMAIN load(NewStore, disk).servers = DOMAIN store.servers
     /\ \A sid \in DOMAIN store.servers :
           load(NewStore, disk).servers[sid] = Reset(store.servers[sid])

\* Two records, one of them in error after the last save, the other saved
\* as connected.
C22_Witness ==
  /\ pend = NoCall
  /\ store.loaded
  /\ DOMAIN store.servers = {"u1", "u2"}
  /\ store.servers["u1"].status = ERROR
  /\ store.servers["u1"].label # store.servers["u2"].label
  /\ disk.state = "complete"
  /\ disk.servers["u2"].status = CONNECTED

\* The status the document on disk has for the record sid.
Recorded(sid) ==
  IF disk.state = "complete" /\ sid \in DOMAIN disk.servers
  THEN disk.servers[sid].status
  ELSE "none"

C24_ConnectOutcome ==
  /\ [][Returns("connect_server")
        => \/ /\ sresp'.code = "connection_failed"
              /\ connected' = connected
              /\ get_server(store', sresp'.id).status = ERROR
              /\ get_server(store', sresp'.id).error_message = Refused
           \/ /\ sresp'.code = "ok"
              /\ get_server(store', sresp'.id).base_url \in connected'
              /\ get_server(store', sresp'.id).status = CONNECTED]_vars
  /\ [](pend.op # "connect_server"
        => \A sid \in DOMAIN store.servers : store.servers[sid].status # CONNECTING)

\* A failed attempt on a record that was connected before.
C24_Witness ==
  /\ sresp = Response("connect_server", "u1", "connection_failed", TRUE)
  /\ get_server(store, "u1").status = ERROR
  /\ get_server(store, "u1").error_message = Refused
  /\ get_server(store, "u1").base_url \in connected

\* C28: update_status leaves the connections document as it is; for an id
\* the store holds it changes the status and the error_message of that
\* record and nothing else; for any other id it changes nothing.
C28_UpdateStatusFrame ==
  [][Answers("update_status")
     => /\ disk' = disk
        /\ DOMAIN store'.servers = DOMAIN Loaded.servers
        /\ \A sid \in DOMAIN Loaded.servers :
              IF sid = sresp'.id
              THEN /\ store'.servers[sid].status = sresp'.code
                   /\ Reset(store'.servers[sid]) = Reset(Loaded.servers[sid])
              ELSE store'.servers[sid] = Loaded.servers[sid]]_vars

\* update_status(ERROR) was called on one of two records, the other being
\* connected; the document still has the first as connected.
C28_Witness ==
  /\ sresp = Response("update_status", "u1", ERROR, FALSE)
  /\ get_server(store, "u1").error_message = Refused
  /\ get_server(store, "u2").status = CONNECTED
  /\ Recorded("u1") = CONNECTED

\* The process holds, or is setting up, a connection for the record sid.
Active(sid) == get_server(store, sid).status \in {CONNECTED, CONNECTING}

\* C29: a record the connections document has as connected or connecting is
\* connected or connecting in the running process.
C29_NoStaleConnection ==
  \A sid \in ConnIds : Recorded(sid) \in {CONNECTED, CONNECTING} => Active(sid)

\* C30: at every instant the connections document at its path is a complete
\* document, the previous one or the new one (or was never written).
C30_AtomicRewrite == disk.state \in {"absent", "complete"}

\* C25: the bridge that left its loop at end of stream, or was interrupted,
\* exits with 0; the one whose loop was left because an exception that is
\* not a NativeMessagingError reached it exits with a code that is not 0.
C25_ExitCodes ==
  exitCode # None
  => /\ loop \in {"eof", "interrupted"} => exitCode = 0
     /\ loop = "crashed" => exitCode # 0

\* --------------------------------------------------- process record claims
\* The state changes a ServerProcess record may make.
Transitions ==
  {<<STARTING, RUNNING>>, <<STARTING, ERROR>>, <<RUNNING, STOPPING>>,
   <<STOPPING, STOPPED>>, <<RUNNING, CRASHED>>, <<RUNNING, STOPPED>>}

\* The exit monitor of the record r finishes in this step.
MonitorEnds(r) ==
  \E pid \in 1..Len(os) : os[pid].rec = r /\ mon[pid] # "done" /\ mon'[pid] = "done"

\* C26: every change of the state of a record is one of Transitions (or
\* running to stopping to stopped within one call of stop_server); the exit
\* monitor takes a running record to crashed for a non-zero exit code and to
\* stopped for exit code 0; a record in stopped, crashed or error keeps its
\* state, and records are superseded, never dropped.
C26_Transitions ==
  [][/\ Len(recs') >= Len(recs)
     /\ \A r \in 1..Len(recs) :
          recs'[r].state # recs[r].state
          => /\ <<recs[r].state, recs'[r].state>> \in Transitions
             /\ recs[r].state \notin {STOPPED, CRASHED, ERROR}
             /\ (recs[r].state = RUNNING /\ MonitorEnds(r))
                => recs'[r].state = IF recs'[r].exit_code # 0 THEN CRASHED ELSE STOPPED]_vars

\* A record of a finished attempt.
Terminal(s) == s \in {STOPPED, CRASHED, ERROR}

\* The record r shows nothing of an earlier attempt: no exit code, no stop
\* time, no error message, and a pid no earlier record has.
Clean(r) ==
  /\ recs[r].exit_code = None
  /\ recs[r].stopped_at = None
  /\ recs[r].error_message = ""
  /\ \A q \in 1..(r - 1) : recs[q].pid # recs[r].pid

\* C27: start_server on an id whose record is stopped, crashed or error puts
\* a new record in place of it, in state starting with no exit_code,
\* stopped_at, pid or error_message (or already in error when the runtime is
\* known to be missing); and once the spawn for such a record has succeeded
\* the record reaches running with a new pid and still none of those fields.
C27_FreshStart ==
  /\ [][\A id \in Ids :
          (/\ Terminal(StateOf(id))
           /\ id \in DOMAIN processes'
           /\ processes'[id] # processes[id])
          => LET r == processes'[id]
             IN /\ r = Len(recs) + 1
                /\ recs'[r].server_id = id
                /\ recs'[r].pid = None
                /\ recs'[r].exit_code = None
                /\ recs'[r].stopped_at = None
                /\ \/ recs'[r].state = STARTING /\ recs'[r].error_message = ""
                   \/ /\ RuntimeMissing(recs'[r].package_type)
                      /\ recs'[r].state = ERROR
                      /\ recs'[r].error_message = "runtime not available"
                /\ \A q \in 1..Len(recs) : recs'[q] = recs[q]]_vars
  /\ \A r \in 2..MaxRecords :
        (/\ r <= Len(recs)
         /\ \E q \in 1..(r - 1) : recs[q].server_id = recs[r].server_id /\ Terminal(recs[q].state)
         /\ main.pc = "spawn" /\ main.rec = r /\ main.spawned)
        ~> (/\ r <= Len(recs) /\ recs[r].state = RUNNING
            /\ recs[r].pid \in ProcsOf(r)
            /\ Clean(r))

\* The second record of an id runs with its own pid while the first one, of a
\* crashed attempt, keeps its exit code and message.
C27_Witness ==
  /\ Len(recs) = 2
  /\ recs[1].server_id = recs[2].server_id
  /\ recs[1].state = CRASHED /\ recs[1].exit_code = 1 /\ recs[1].error_message = "exited"
  /\ recs[2].state = RUNNING /\ recs[2].pid # recs[1].pid
  /\ Clean(2)

\* -------------------------------------------------- process record claims, 2
\* C39: a record in running or stopping has a pid and a process handle; a
\* record in stopped or crashed has exit_code and stopped_at; a record in
\* crashed or error has an error_message; a record in error has no pid (the
\* only way into error is a launch failure).
C39_RecordShape ==
  \A r \in 1..Len(recs) :
    /\ recs[r].state \in {RUNNING, STOPPING}
       => recs[r].pid # None /\ recs[r].process # None
    /\ recs[r].state \in {STOPPED, CRASHED}
       => recs[r].exit_code # None /\ recs[r].stopped_at # None
    /\ recs[r].state \in {CRASHED, ERROR} => recs[r].error_message # ""
    /\ recs[r].state = ERROR => recs[r].pid = None /\ recs[r].process = None

\* One record ended in error by a failed spawn, another one crashed.
C39_Witness ==
  /\ Len(recs) = 2
  /\ recs[1].state = CRASHED /\ recs[1].exit_code = 1 /\ recs[1].pid = 1
  /\ recs[2].state = ERROR /\ recs[2].error_message = "spawn failed"


\* -------------------------------------------------- process claims, 3
\* The OS processes spawned for server id that have not exited yet.
LiveOf(id) ==
  {pid \in 1..Len(os) : os[pid].status = "alive" /\ recs[os[pid].rec].server_id = id}

\* C37: at any time at most one spawned OS process per server id is alive,
\* also after uninstall of a running server followed by install and start of
\* the same id, and after a start issued while the record is stopping.
C37_OneLiveProcess == \A id \in Ids : Cardinality(LiveOf(id)) <= 1


\* C32: once a record has left starting, its state and exit_code change only
\* in the step in which the exit monitor of its own process finishes.
C32_SingleWriter ==
  [][\A r \in 1..Len(recs) :
       /\ recs[r].state # STARTING
       /\ \/ recs'[r].state # recs[r].state
          \/ recs'[r].exit_code # recs[r].exit_code
       => MonitorEnds(r)]_vars


\* The main loop is suspended in read_message and no message has arrived.
AwaitsMessage == main.pc = "read" /\ ~InReady(MainTask)

\* C31: a supervised process that has exited while the main loop waits for
\* the next message gets its record to stopped or crashed with the exit code
\* recorded; no message has to arrive for that (no fairness on MsgArrive).
C31_ExitWhileWaiting ==
  \A pid \in 1..MaxRecords :
    (pid \in 1..Len(os) /\ os[pid].status = "exited" /\ AwaitsMessage)
    ~> /\ pid \in 1..Len(os)
       /\ mon[pid] = "done"
       /\ recs[os[pid].rec].state \in {STOPPED, CRASHED}
       /\ recs[os[pid].rec].exit_code = os[pid].rc

\* The process crashed and its monitor recorded it while the loop was waiting.
C31_Witness ==
  /\ AwaitsMessage
  /\ Len(os) = 1 /\ os[1].status = "exited" /\ os[1].rc = 1
  /\ mon[1] = "done"
  /\ recs[os[1].rec].state = CRASHED /\ recs[os[1].rec].exit_code = 1


\* -------------------------------------------------------------- log buffer
\* The last m elements of buf, in order.
LastLines(buf, m) == [i \in 1..m |-> buf[Len(buf) - m + i]]

Min(a, b) == IF a < b THEN a ELSE b

\* C34: a log buffer never holds more than 1000 lines and holds consecutive
\* lines in arrival order; to_dict shows exactly its last min(50, length)
\* lines in that order; an append to a buffer of 1000 lines leaves the 500
\* most recent lines, the new one last, and any other append adds one line.
C34_LogBuffer ==
  /\ [](\A r \in 1..Len(recs) :
          LET b == recs[r].log_buffer
          IN /\ Len(b) <= 1000
             /\ \A i \in 1..(Len(b) - 1) : b[i + 1] = b[i] + 1
             /\ ToDict(recs, r).log_buffer = LastLines(b, Min(50, Len(b))))
  /\ [][\A r \in 1..Len(recs) :
          LET b == recs[r].log_buffer
              c == recs'[r].log_buffer
          IN c # b
             => IF Len(b) < 1000
                THEN Len(c) = Len(b) + 1 /\ SubSeq(c, 1, Len(b)) = b
                ELSE /\ Len(c) = 500
                     /\ SubSeq(c, 1, 499) = LastLines(b, 499)
                     /\ c[500] = b[Len(b)] + 1]_vars

\* The buffer right after it was cut: lines 501 to 1000 of 0 to 1000.
C34_Witness ==
  \E r \in 1..Len(recs) :
    LET b == recs[r].log_buffer
    IN /\ Len(b) = 500 /\ b[1] = 501 /\ b[500] = 1000
       /\ Len(ToDict(recs, r).log_buffer) = 50
       /\ ToDict(recs, r).log_buffer[1] = 951


\* ------------------------------------------------------------ stale tasks
\* A task created for record q takes a step: its exit monitor finishes, a
\* detached stop_server working on it moves on, or one of its pumps appends.
StaleActs(q) ==
  \/ MonitorEnds(q)
  \/ \E k \in 1..Len(det) : det'[k] # det[k] /\ det'[k].rec = q
  \/ recs'[q].log_buffer # recs[q].log_buffer /\ main' = main

\* C38: while the id maps to a record r, no step of the monitor, of a pending
\* stop or of a pump of an earlier record q of the same id changes r.
C38_StaleTasks ==
  [][\A id \in DOMAIN processes :
       \A q \in 1..Len(recs) :
         /\ q # processes[id]
         /\ recs[q].server_id = id
         /\ StaleActs(q)
         => recs'[processes[id]] = recs[processes[id]]]_vars

\* The second process runs and has printed nothing yet; the monitor and a
\* pump of the first process have acted and its stop task is still queued.
C38_Witness ==
  /\ Len(recs) = 2 /\ GetProcess("a") = 2
  /\ recs[2].state = RUNNING /\ recs[2].pid = 2 /\ recs[2].log_buffer = <<CmdLine>>
  /\ mon[1] = "done" /\ recs[1].exit_code # None
  /\ Len(recs[1].log_buffer) = 2
  /\ Len(det) >= 1 /\ det[1].rec = 1 /\ InReady(DetTask(1))


\* ----------------------------------------------------- command construction
\* The executable exe was found on the search path of host h.
OnPath(h, exe) ==
  IF exe = "npx" THEN h.npx
  ELSE IF exe = "node" THEN h.node
  ELSE IF exe = "uvx" THEN h.uvx
  ELSE IF exe = "python3" THEN h.python
  ELSE IF exe = "docker" THEN h.docker
  ELSE FALSE

\* C35: the command start_server is about to spawn names an executable that
\* was detected on the search path; otherwise no command is built.
C35_DetectedExecutable == main.pc = "spawn" => OnPath(host, main.cmd)


\* ------------------------------------------------------------------ restart
\* The start_server called by restart_server spawns a process.
RestartSpawns == main.pc = "spawn" /\ main.restart /\ Len(os') = Len(os) + 1

\* C33: when restart_server spawns, every process spawned earlier for the id
\* has exited, and the new process has the package identity of the record
\* and the env vars given; restart on an id without a record spawns nothing.
C33_RestartOrder ==
  [][RestartSpawns
     => /\ \A pid \in 1..Len(os) :
             recs[os[pid].rec].server_id = main.sid => os[pid].status = "exited"
        /\ os'[Len(os')].env = main.env
        /\ os'[Len(os')].rec = main.rec]_vars

\* C40: the process restart_server spawns gets the args that start(id) passes
\* for the installed config.
C40_RestartArgs ==
  [][RestartSpawns /\ main.sid \in DOMAIN servers
     => os'[Len(os')].args = servers[main.sid].args]_vars


\* A restart that resumes from its stop finds the command buildable.
RelaunchBuilds ==
  main.restart /\ main.pc \in {"stopwait", "killwait"}
  => BuildCommand(cache, recs[main.rec].package_type) # "none"


\* -------------------------------------------------------------- persistence
\* A new bridge process takes over: the runtime cache, filled before, is
\* empty again.
BridgeRestarts == cache.size = 3 /\ cache'.size = 0

\* C36 as stated: the restarted bridge has exactly the configs and secrets of
\* the one before, and no process record.
C36_SameAfterRestart ==
  [][BridgeRestarts
     => /\ servers' = servers
        /\ secrets' = secrets
        /\ recs' = <<>>
        /\ processes' = EmptyMap]_vars

\* installed_at as it comes back from the document: whole milliseconds.
Persisted(s) == [s EXCEPT !.installed_at = (@ \div 1000) * 1000]

\* C36, amended: at every moment the documents on disk load to the configs
\* in memory with installed_at cut to the millisecond and to the secrets in
\* memory, and a restarted bridge has exactly those and no process record.
C36_SameToTheMillisecond ==
  /\ [](/\ DOMAIN LoadInstalled(files.installed) = DOMAIN servers
        /\ \A id \in DOMAIN servers :
              LoadInstalled(files.installed)[id] = Persisted(servers[id])
        /\ LoadSecrets(files.credentials) = secrets)
  /\ [][BridgeRestarts
       => /\ DOMAIN servers' = DOMAIN servers
          /\ \A id \in DOMAIN servers : servers'[id] = Persisted(servers[id])
          /\ secrets' = secrets
          /\ recs' = <<>>
          /\ processes' = EmptyMap]_vars

\* After a restart: the config installed and configured before it is back
\* with its args, its secret is stored, and no record is left.
C36_Witness ==
  /\ cache.size = 0 /\ recs = <<>> /\ processes = EmptyMap
  /\ DOMAIN servers = {"a"}
  /\ servers["a"].args = <<"--verbose">>
  /\ servers["a"].installed_at = 1000000
  /\ Stored(secrets, "a") = ("API_KEY" :> "k1")

====
